---- MODULE Spec2Model ----
(***************************************************************************)
(* A model of the incremental FLV decoder and encoder of flv_codec:        *)
(* FileDecoder (file.rs), HeaderDecoder (header.rs), TagDecoder and the    *)
(* payload decoders (tag.rs), driven chunk by chunk as examples/parse.rs   *)
(* and the tests of lib.rs drive them, and FileEncoder (file.rs).          *)
(*                                                                         *)
(* Every decoder is a record of its fields and every method a pure         *)
(* operator from the decoder (and the buffer) to the new decoder, the      *)
(* number of bytes consumed and the error kind.                            *)
(*                                                                         *)
(* Representation.  A byte is a number 0..255 and a buffer a sequence of   *)
(* bytes.  A fixed-size number decoder (U8Decoder, U24beDecoder,           *)
(* U32beDecoder, CopyableBytesDecoder<[u8; 3]>) is the sequence of bytes   *)
(* it has read so far.  Option<T> is a sequence of length 0 or 1.  An      *)
(* enumeration value is its code.  An error kind is a string, "Ok" for     *)
(* none.  Eos is the boolean `is_reached()`.                               *)
(***************************************************************************)
EXTENDS Integers, Sequences, FiniteSets, TLC

Min(a, b) == IF a <= b THEN a ELSE b

Take(s, n) == SubSeq(s, 1, n)

Drop(s, n) == SubSeq(s, n + 1, Len(s))

\* Only({e(r) : r \in {x}}) is e(x), with x evaluated once.
Only(S) == CHOOSE v \in S : TRUE

\* Big-endian value of a sequence of bytes.
RECURSIVE BE(_)
BE(bs) == IF bs = <<>> THEN 0 ELSE BE(Take(bs, Len(bs) - 1)) * 256 + bs[Len(bs)]

Pow24 == 16777216

Pow23 == 8388608

\* Big-endian encoding of v (0 <= v < 256^size) on `size` bytes.
RECURSIVE ToBE(_, _)
ToBE(v, size) == IF size = 0 THEN <<>> ELSE ToBE(v \div 256, size - 1) \o <<v % 256>>

(***************************************************************************)
(* Program constants.                                                      *)
(***************************************************************************)
TAG_TYPE_AUDIO == 8

TAG_TYPE_VIDEO == 9

TAG_TYPE_SCRIPT_DATA == 18

VERSION == 1

HEADER_SIZE == 9

FLAG_AUDIO == 4

FLAG_VIDEO == 1

SIGNATURE == <<70, 76, 86>>

\* The five fields of TagHeaderDecoder: 1 + 3 + 3 + 1 + 3 bytes.
TAG_HEADER_SIZE == 1 + 3 + 3 + 1 + 3

Aac == 10

Avc == 7

VideoInfoOrCommandFrame == 5

(***************************************************************************)
(* Enumerations (audio.rs, video.rs): from_u8 accepts the listed codes.    *)
(***************************************************************************)
FromU8(b, codes) == IF b \in codes THEN [err |-> "Ok", v |-> b] ELSE [err |-> "InvalidInput", v |-> b]

AacPacketType_from_u8(b) == FromU8(b, {0, 1})

\* Fault: the unused code 9 is accepted.
SoundFormat_from_u8_with_9(b) == FromU8(b, (0 .. 11) \cup {14, 15})

SoundFormat_from_u8(b) == FromU8(b, (0 .. 8) \cup {10, 11, 14, 15})

SoundRate_from_u8(b) == FromU8(b, 0 .. 3)

\* Fault: a set bit is read as 8-bit samples.
SoundSize_from_bool_inverted(b) == IF b THEN 0 ELSE 1

SoundSize_from_bool(b) == IF b THEN 1 ELSE 0

SoundType_from_bool(b) == IF b THEN 1 ELSE 0

CodecId_from_u8(b) == FromU8(b, 1 .. 7)

FrameType_from_u8(b) == FromU8(b, 1 .. 5)

AvcPacketType_from_u8(b) == FromU8(b, 0 .. 2)

(***************************************************************************)
(* 32-bit integer operations of the code, on two's-complement values.  A   *)
(* signed value x has bit i equal to (x \div 2^i) % 2, \div rounding down. *)
(***************************************************************************)
\* x << k on 32 bits, read as i32: the low 32 - k bits move up, the bits
\* above them are dropped, and bit 31 of the result is the sign.
Shl32(x, k) ==
    LET low == x % (2 ^ (32 - k))
    IN  (IF low >= 2 ^ (31 - k) THEN low - 2 ^ (32 - k) ELSE low) * (2 ^ k)

\* x >> k on i32: the arithmetic shift, which keeps the sign.
Sar32(x, k) == x \div (2 ^ k)

\* x | y on i32, bit by bit from the lowest: x is 2 * (x \div 2) + x % 2,
\* and 0 and -1 are the values whose remaining bits are all 0 or all 1.
RECURSIVE Or32(_, _)
Or32(x, y) ==
    IF x = 0 THEN y
    ELSE IF y = 0 THEN x
    ELSE IF x = -1 \/ y = -1 THEN -1
    ELSE 2 * Or32(x \div 2, y \div 2) + (IF x % 2 = 1 \/ y % 2 = 1 THEN 1 ELSE 0)

\* Fault: the 24-bit value taken as unsigned.
TimeOffset_from_u24_unsigned(n) == n

\* Fault: the sign bit alone is taken as positive.
TimeOffset_from_u24_off_by_one(n) == IF n <= Pow23 THEN n ELSE Sar32(Shl32(n, 8), 8)

\* time.rs, tag.rs: ((n << 8) as i32) >> 8 for the u32 n of a U24beDecoder.
TimeOffset_from_u24(n) == Sar32(Shl32(n, 8), 8)

\* Fault: the sign bit of the extended byte is dropped.
Timestamp_combine_unsigned_ext(ts, ext) == ts + (ext % 128) * Pow24

\* tag.rs: (timestamp as i32) | i32::from(timestamp_extended) << 24: the
\* shift binds tighter than the or.
Timestamp_combine(ts, ext) == Or32(ts, Shl32(ext, 24))

(***************************************************************************)
(* The library's leaf decoders, as the fields of this repository use them. *)
(***************************************************************************)
\* A decode result.
Res(d, n, err) == [d |-> d, n |-> n, err |-> err]

\* CopyableBytesDecoder<[u8; size]>::decode, under U8Decoder, U24beDecoder
\* and U32beDecoder: copy what fits; end of stream before the last byte is
\* UnexpectedEos.
Bytes_decode(d, size, buf, eos) ==
    LET n == Min(Len(buf), size - Len(d))
        nd == d \o Take(buf, n)
    IN  Res(nd, n, IF Len(nd) # size /\ eos THEN "UnexpectedEos" ELSE "Ok")

\* finish_decoding of the same: the value, and the decoder emptied.
Bytes_finish(d, size) ==
    IF Len(d) # size
    THEN [d |-> d, err |-> "IncompleteDecoding", item |-> <<>>]
    ELSE [d |-> <<>>, err |-> "Ok", item |-> d]

\* RemainingBytesDecoder: every byte up to the end of stream.
RemainingBytes_new == [buf |-> <<>>, eos |-> FALSE]

\* Fault: each call replaces what the earlier calls collected.
RemainingBytes_decode_forgetful(d, buf, eos) ==
    IF d.eos THEN Res(d, 0, "Ok")
    ELSE Res([buf |-> buf, eos |-> eos], Len(buf), "Ok")

RemainingBytes_decode(d, buf, eos) ==
    IF d.eos THEN Res(d, 0, "Ok")
    ELSE Res([buf |-> d.buf \o buf, eos |-> eos], Len(buf), "Ok")

RemainingBytes_finish(d) ==
    IF ~d.eos
    THEN [d |-> d, err |-> "IncompleteDecoding", item |-> <<>>]
    ELSE [d |-> RemainingBytes_new, err |-> "Ok", item |-> d.buf]

\* Peekable<D>: the inner decoder and the item it has produced, if any.
Peekable_new(inner) == [inner |-> inner, item |-> <<>>]

Peekable_is_idle(p) == p.item # <<>>

Peekable_finish(p) ==
    IF p.item = <<>>
    THEN [d |-> p, err |-> "IncompleteDecoding", item |-> <<>>]
    ELSE [d |-> [p EXCEPT !.item = <<>>], err |-> "Ok", item |-> p.item[1]]

(***************************************************************************)
(* bytecodec_try_decode!(decoder, offset, buf, eos): if the sub-decoder is *)
(* not idle, decode from buf[offset..] and return early when it is still   *)
(* not idle.  An accumulator carries the composite decoder, the offset,    *)
(* the error and whether decode has returned.                              *)
(***************************************************************************)
Acc(d) == [d |-> d, off |-> 0, err |-> "Ok", ret |-> FALSE]

AccRes(a) == Res(a.d, a.off, a.err)

\* The step for a field that is a fixed-size number decoder.
TryBytes(a, f, size, buf, eos) ==
    IF a.ret \/ Len(a.d[f]) = size THEN a
    ELSE LET r == Bytes_decode(a.d[f], size, Drop(buf, a.off), eos)
         IN  [d |-> [a.d EXCEPT ![f] = r.d],
              off |-> a.off + r.n,
              err |-> r.err,
              ret |-> r.err # "Ok" \/ Len(r.d) # size]

\* The step for a field that is a RemainingBytesDecoder.
TryRemaining(a, f, buf, eos) ==
    IF a.ret \/ a.d[f].eos THEN a
    ELSE LET r == RemainingBytes_decode(a.d[f], Drop(buf, a.off), eos)
         IN  [d |-> [a.d EXCEPT ![f] = r.d],
              off |-> a.off + r.n,
              err |-> r.err,
              ret |-> ~r.d.eos]

(***************************************************************************)
(* AudioTagDataDecoder (tag.rs): header byte, AAC packet type byte when    *)
(* the format nibble is 10, then the remaining bytes.                      *)
(***************************************************************************)
AudioTagDataDecoder_new ==
    [header |-> Peekable_new(<<>>), aac_packet_type |-> <<>>, data |-> RemainingBytes_new]

\* Fault: every audio payload is taken to carry an AAC packet type.
AudioTagDataDecoder_is_aac_packet_always(d) == d.header.item # <<>>

\* Fault: the format compared with is MP3, not AAC.
AudioTagDataDecoder_is_aac_packet_mp3(d) ==
    d.header.item # <<>> /\ d.header.item[1] \div 16 = 2

AudioTagDataDecoder_is_aac_packet(d) ==
    d.header.item # <<>> /\ d.header.item[1] \div 16 = Aac

\* bytecodec_try_decode!(self.header, ...) for header: Peekable<U8Decoder>.
\* Peekable::decode finishes the inner decoder as soon as it is idle.
AudioTagDataDecoder_try_header(a, buf, eos) ==
    IF a.ret \/ Peekable_is_idle(a.d.header) THEN a
    ELSE LET r == Bytes_decode(a.d.header.inner, 1, Drop(buf, a.off), eos)
             done == r.err = "Ok" /\ Len(r.d) = 1
             p == IF done THEN [inner |-> <<>>, item |-> <<r.d[1]>>]
                  ELSE [inner |-> r.d, item |-> <<>>]
         IN  [d |-> [a.d EXCEPT !.header = p],
              off |-> a.off + r.n,
              err |-> r.err,
              ret |-> ~done]

AudioTagDataDecoder_decode(d, buf, eos) ==
    LET a1 == AudioTagDataDecoder_try_header(Acc(d), buf, eos)
        a2 == IF AudioTagDataDecoder_is_aac_packet(a1.d)
              THEN TryBytes(a1, "aac_packet_type", 1, buf, eos)
              ELSE a1
        a3 == TryRemaining(a2, "data", buf, eos)
    IN  AccRes(a3)

\* Fault: the sub-decoder asked is the first one, not the last.
AudioTagDataDecoder_is_idle_header(d) == Peekable_is_idle(d.header)

AudioTagDataDecoder_is_idle(d) == d.data.eos

\* finish_decoding: each `?` returns at the first error, leaving the
\* sub-decoders finished so far reset.
AudioTagDataDecoder_finish(d) ==
    LET h == Peekable_finish(d.header)
        b == h.item
        d1 == [d EXCEPT !.header = h.d]
        sound_format == SoundFormat_from_u8(b \div 16)
        sound_rate == SoundRate_from_u8((b \div 4) % 4)
        sound_size == SoundSize_from_bool((b \div 2) % 2 # 0)
        sound_type == SoundType_from_bool(b % 2 # 0)
        isAac == sound_format.v = Aac
        ap == Bytes_finish(d1.aac_packet_type, 1)
        apt == AacPacketType_from_u8(ap.item[1])
        d2 == IF isAac THEN [d1 EXCEPT !.aac_packet_type = ap.d] ELSE d1
        dat == RemainingBytes_finish(d2.data)
        d3 == [d2 EXCEPT !.data = dat.d]
        Fail(dd, e) == [d |-> dd, err |-> e, item |-> <<>>]
    IN  IF h.err # "Ok" THEN Fail(d, h.err)
        ELSE IF sound_format.err # "Ok" THEN Fail(d1, sound_format.err)
        ELSE IF sound_rate.err # "Ok" THEN Fail(d1, sound_rate.err)
        ELSE IF isAac /\ ap.err # "Ok" THEN Fail(d1, ap.err)
        ELSE IF isAac /\ apt.err # "Ok" THEN Fail(d2, apt.err)
        ELSE IF dat.err # "Ok" THEN Fail(d2, dat.err)
        ELSE [d |-> d3, err |-> "Ok",
              item |-> [sound_format |-> sound_format.v,
                        sound_rate |-> sound_rate.v,
                        sound_size |-> sound_size,
                        sound_type |-> sound_type,
                        aac_packet_type |-> IF isAac THEN <<apt.v>> ELSE <<>>,
                        data |-> dat.item]]

(***************************************************************************)
(* VideoTagDataDecoder (tag.rs): frame type and codec byte, then the AVC   *)
(* packet type byte and the 3-byte composition time when the codec is AVC  *)
(* and the frame is not an info/command frame, then the remaining bytes.   *)
(***************************************************************************)
VideoTagDataDecoder_new ==
    [frame_type_and_codec |-> Peekable_new(<<>>), avc_packet_type |-> <<>>,
     composition_time |-> <<>>, data |-> RemainingBytes_new]

\* FrameTypeAndCodecDecoder::finish_decoding on the byte b.
FrameTypeAndCodecDecoder_finish(b) ==
    LET frame_type == FrameType_from_u8(b \div 16)
        codec_id == CodecId_from_u8(b % 16)
    IN  IF frame_type.err # "Ok" THEN [err |-> frame_type.err, item |-> <<>>]
        ELSE IF codec_id.err # "Ok" THEN [err |-> codec_id.err, item |-> <<>>]
        ELSE [err |-> "Ok", item |-> <<frame_type.v, codec_id.v>>]

\* Fault: the codec compared with is not AVC.
VideoTagDataDecoder_is_avc_packet_h263(d) ==
    /\ d.frame_type_and_codec.item # <<>>
    /\ d.frame_type_and_codec.item[1][1] # VideoInfoOrCommandFrame
    /\ d.frame_type_and_codec.item[1][2] = 2

VideoTagDataDecoder_is_avc_packet(d) ==
    /\ d.frame_type_and_codec.item # <<>>
    /\ d.frame_type_and_codec.item[1][1] # VideoInfoOrCommandFrame
    /\ d.frame_type_and_codec.item[1][2] = Avc

\* bytecodec_try_decode!(self.frame_type_and_codec, ...): Peekable::decode
\* finishes the inner decoder as soon as it is idle, so an unknown frame
\* type or codec is an error of decode.
VideoTagDataDecoder_try_frame_type_and_codec(a, buf, eos) ==
    IF a.ret \/ Peekable_is_idle(a.d.frame_type_and_codec) THEN a
    ELSE LET r == Bytes_decode(a.d.frame_type_and_codec.inner, 1, Drop(buf, a.off), eos)
             full == r.err = "Ok" /\ Len(r.d) = 1
             fin == FrameTypeAndCodecDecoder_finish(r.d[1])
             done == full /\ fin.err = "Ok"
             p == IF done THEN [inner |-> <<>>, item |-> <<fin.item>>]
                  ELSE IF full THEN [inner |-> <<>>, item |-> <<>>]
                  ELSE [inner |-> r.d, item |-> <<>>]
         IN  [d |-> [a.d EXCEPT !.frame_type_and_codec = p],
              off |-> a.off + r.n,
              err |-> IF full THEN fin.err ELSE r.err,
              ret |-> ~done]

VideoTagDataDecoder_decode(d, buf, eos) ==
    LET a1 == VideoTagDataDecoder_try_frame_type_and_codec(Acc(d), buf, eos)
        avc == VideoTagDataDecoder_is_avc_packet(a1.d)
        a2 == IF avc THEN TryBytes(a1, "avc_packet_type", 1, buf, eos) ELSE a1
        a3 == IF avc THEN TryBytes(a2, "composition_time", 3, buf, eos) ELSE a2
        a4 == TryRemaining(a3, "data", buf, eos)
    IN  AccRes(a4)

VideoTagDataDecoder_is_idle(d) == d.data.eos

VideoTagDataDecoder_finish(d) ==
    LET is_avc_packet == VideoTagDataDecoder_is_avc_packet(d)
        h == Peekable_finish(d.frame_type_and_codec)
        d1 == [d EXCEPT !.frame_type_and_codec = h.d]
        ap == Bytes_finish(d1.avc_packet_type, 1)
        apt == AvcPacketType_from_u8(ap.item[1])
        d2 == IF is_avc_packet THEN [d1 EXCEPT !.avc_packet_type = ap.d] ELSE d1
        ct == Bytes_finish(d2.composition_time, 3)
        d3 == IF is_avc_packet THEN [d2 EXCEPT !.composition_time = ct.d] ELSE d2
        dat == RemainingBytes_finish(d3.data)
        d4 == [d3 EXCEPT !.data = dat.d]
        Fail(dd, e) == [d |-> dd, err |-> e, item |-> <<>>]
    IN  IF h.err # "Ok" THEN Fail(d, h.err)
        ELSE IF is_avc_packet /\ ap.err # "Ok" THEN Fail(d1, ap.err)
        ELSE IF is_avc_packet /\ apt.err # "Ok" THEN Fail(d2, apt.err)
        ELSE IF is_avc_packet /\ ct.err # "Ok" THEN Fail(d2, ct.err)
        ELSE IF dat.err # "Ok" THEN Fail(d3, dat.err)
        ELSE [d |-> d4, err |-> "Ok",
              item |-> [frame_type |-> h.item[1],
                        codec_id |-> h.item[2],
                        avc_packet_type |-> IF is_avc_packet THEN <<apt.v>> ELSE <<>>,
                        composition_time |->
                            IF is_avc_packet THEN <<TimeOffset_from_u24(BE(ct.item))>> ELSE <<>>,
                        data |-> dat.item]]

(***************************************************************************)
(* ScriptDataTagDataDecoder (tag.rs): the remaining bytes.                 *)
(***************************************************************************)
ScriptDataTagDataDecoder_new == RemainingBytes_new

ScriptDataTagDataDecoder_decode(d, buf, eos) == RemainingBytes_decode(d, buf, eos)

ScriptDataTagDataDecoder_is_idle(d) == d.eos

ScriptDataTagDataDecoder_finish(d) ==
    LET r == RemainingBytes_finish(d)
    IN  [d |-> r.d, err |-> r.err, item |-> [data |-> r.item]]

(***************************************************************************)
(* TagDataDecoder (tag.rs): the payload decoder the tag type selects, or   *)
(* None before a header is known and after finish_decoding.                *)
(***************************************************************************)
TagDataDecoder_None == [variant |-> "None", d |-> [none |-> TRUE]]

\* Fault: the audio and the video payload decoders are exchanged.
TagDataDecoder_for_swapped(tag_type) ==
    IF tag_type = TAG_TYPE_AUDIO THEN [variant |-> "Video", d |-> VideoTagDataDecoder_new]
    ELSE IF tag_type = TAG_TYPE_VIDEO THEN [variant |-> "Audio", d |-> AudioTagDataDecoder_new]
    ELSE [variant |-> "ScriptData", d |-> ScriptDataTagDataDecoder_new]

\* TagDecoder::decode's match on header.tag_type.
TagDataDecoder_for(tag_type) ==
    IF tag_type = TAG_TYPE_AUDIO THEN [variant |-> "Audio", d |-> AudioTagDataDecoder_new]
    ELSE IF tag_type = TAG_TYPE_VIDEO THEN [variant |-> "Video", d |-> VideoTagDataDecoder_new]
    ELSE [variant |-> "ScriptData", d |-> ScriptDataTagDataDecoder_new]

TagDataDecoder_decode(t, buf, eos) ==
    Only({Res([t EXCEPT !.d = r.d], r.n, r.err) : r \in
            {CASE t.variant = "Audio" -> AudioTagDataDecoder_decode(t.d, buf, eos)
               [] t.variant = "Video" -> VideoTagDataDecoder_decode(t.d, buf, eos)
               [] t.variant = "ScriptData" -> ScriptDataTagDataDecoder_decode(t.d, buf, eos)
               [] OTHER -> Res(t.d, 0, "InconsistentState")}})

TagDataDecoder_is_idle(t) ==
    CASE t.variant = "Audio" -> AudioTagDataDecoder_is_idle(t.d)
      [] t.variant = "Video" -> VideoTagDataDecoder_is_idle(t.d)
      [] t.variant = "ScriptData" -> ScriptDataTagDataDecoder_is_idle(t.d)
      [] OTHER -> TRUE

\* finish_decoding: the payload tagged with its kind; `*self = None` only
\* on success.
TagDataDecoder_finish(t) ==
    Only({IF r.err # "Ok" THEN [d |-> [t EXCEPT !.d = r.d], err |-> r.err, item |-> <<>>]
          ELSE [d |-> TagDataDecoder_None, err |-> "Ok",
                item |-> [kind |-> t.variant, d |-> r.item]] : r \in
            {CASE t.variant = "Audio" -> AudioTagDataDecoder_finish(t.d)
               [] t.variant = "Video" -> VideoTagDataDecoder_finish(t.d)
               [] t.variant = "ScriptData" -> ScriptDataTagDataDecoder_finish(t.d)
               [] OTHER -> [d |-> t.d, err |-> "InconsistentState", item |-> <<>>]}})

(***************************************************************************)
(* Length<TagDataDecoder> (tag.rs, TagDecoder.data): the payload decoder   *)
(* sees at most remaining_bytes bytes, and sees the end of stream exactly  *)
(* when the last of them is handed over.                                   *)
(***************************************************************************)
\* Fault: the size field after the tag is counted into the payload.
Length_new_with_size_field(inner, n) ==
    [inner |-> inner, expected_bytes |-> n + 4, remaining_bytes |-> n + 4]

Length_new(inner, n) == [inner |-> inner, expected_bytes |-> n, remaining_bytes |-> n]

\* Fault: the inner decoder is handed the whole buffer.
Length_decode_unbounded(l, buf, eos) ==
    Only({IF r.err # "Ok" THEN Res([l EXCEPT !.inner = r.d], r.n, r.err)
          ELSE Res([l EXCEPT !.inner = r.d,
                             !.remaining_bytes = IF @ >= r.n THEN @ - r.n ELSE 0], r.n, "Ok") :
          r \in {TagDataDecoder_decode(l.inner, buf, Len(buf) >= l.remaining_bytes)}})

\* Fault: the payload decoder is shown the caller's end of stream, not
\* the end of the declared length.
Length_decode_caller_eos(l, buf, eos) ==
    LET limit == Min(Len(buf), l.remaining_bytes)
        required == l.remaining_bytes - limit
    IN  IF eos /\ Len(buf) - limit < required THEN Res(l, 0, "UnexpectedEos")
        ELSE Only({IF r.err # "Ok" THEN Res([l EXCEPT !.inner = r.d], r.n, r.err)
                   ELSE Res([l EXCEPT !.inner = r.d, !.remaining_bytes = @ - r.n], r.n, "Ok") :
                   r \in {TagDataDecoder_decode(l.inner, Take(buf, limit), eos)}})

Length_decode(l, buf, eos) ==
    LET limit == Min(Len(buf), l.remaining_bytes)
        required == l.remaining_bytes - limit
    IN  IF eos /\ Len(buf) - limit < required THEN Res(l, 0, "UnexpectedEos")
        ELSE Only({IF r.err # "Ok" THEN Res([l EXCEPT !.inner = r.d], r.n, r.err)
                   ELSE Res([l EXCEPT !.inner = r.d, !.remaining_bytes = @ - r.n], r.n, "Ok") :
                   r \in {TagDataDecoder_decode(l.inner, Take(buf, limit), required = 0)}})

Length_is_idle(l) == TagDataDecoder_is_idle(l.inner)

Length_requiring_bytes(l) == l.remaining_bytes

Length_finish(l) ==
    IF l.remaining_bytes # 0
    THEN [d |-> l, err |-> "IncompleteDecoding", item |-> <<>>]
    ELSE Only({[d |-> [l EXCEPT !.inner = r.d, !.remaining_bytes = l.expected_bytes],
                err |-> r.err, item |-> r.item] : r \in {TagDataDecoder_finish(l.inner)}})

(***************************************************************************)
(* TagHeaderDecoder (tag.rs): the 11 bytes of a tag header.                *)
(***************************************************************************)
TagHeaderDecoder_new ==
    [tag_type |-> <<>>, data_size |-> <<>>, timestamp |-> <<>>,
     timestamp_extended |-> <<>>, stream_id |-> <<>>]

\* Fault: the extended byte is read before the 24-bit timestamp.
TagHeaderDecoder_decode_extended_first(d, buf, eos) ==
    LET a1 == TryBytes(Acc(d), "tag_type", 1, buf, eos)
        a2 == TryBytes(a1, "data_size", 3, buf, eos)
        a3 == TryBytes(a2, "timestamp_extended", 1, buf, eos)
        a4 == TryBytes(a3, "timestamp", 3, buf, eos)
        a5 == TryBytes(a4, "stream_id", 3, buf, eos)
    IN  AccRes(a5)

TagHeaderDecoder_decode(d, buf, eos) ==
    LET a1 == TryBytes(Acc(d), "tag_type", 1, buf, eos)
        a2 == TryBytes(a1, "data_size", 3, buf, eos)
        a3 == TryBytes(a2, "timestamp", 3, buf, eos)
        a4 == TryBytes(a3, "timestamp_extended", 1, buf, eos)
        a5 == TryBytes(a4, "stream_id", 3, buf, eos)
    IN  AccRes(a5)

TagHeaderDecoder_is_idle(d) == Len(d.stream_id) = 3

TagHeaderDecoder_consumed(d) ==
    Len(d.tag_type) + Len(d.data_size) + Len(d.timestamp)
        + Len(d.timestamp_extended) + Len(d.stream_id)

TagHeaderDecoder_requiring_bytes(d) == TAG_HEADER_SIZE - TagHeaderDecoder_consumed(d)

TagHeaderDecoder_finish(d) ==
    LET incomplete == \/ Len(d.tag_type) # 1 \/ Len(d.data_size) # 3
                      \/ Len(d.timestamp) # 3 \/ Len(d.timestamp_extended) # 1
                      \/ Len(d.stream_id) # 3
        tag_type == d.tag_type[1]
    IN  IF incomplete THEN [d |-> d, err |-> "IncompleteDecoding", item |-> <<>>]
        ELSE IF tag_type \notin {TAG_TYPE_AUDIO, TAG_TYPE_VIDEO, TAG_TYPE_SCRIPT_DATA}
        THEN [d |-> TagHeaderDecoder_new, err |-> "InvalidInput", item |-> <<>>]
        ELSE [d |-> TagHeaderDecoder_new, err |-> "Ok",
              item |-> [tag_type |-> tag_type,
                        data_size |-> BE(d.data_size),
                        timestamp |-> Timestamp_combine(BE(d.timestamp), d.timestamp_extended[1]),
                        stream_id |-> BE(d.stream_id)]]

(***************************************************************************)
(* Tag values.  A decoded tag is the header's timestamp and stream id      *)
(* merged with the payload's fields (TagDecoder::finish_decoding).         *)
(***************************************************************************)
Tag_from(header, data) ==
    CASE data.kind = "Audio" ->
            [kind |-> "Audio", timestamp |-> header.timestamp, stream_id |-> header.stream_id,
             sound_format |-> data.d.sound_format, sound_rate |-> data.d.sound_rate,
             sound_size |-> data.d.sound_size, sound_type |-> data.d.sound_type,
             aac_packet_type |-> data.d.aac_packet_type, data |-> data.d.data]
      [] data.kind = "Video" ->
            [kind |-> "Video", timestamp |-> header.timestamp, stream_id |-> header.stream_id,
             frame_type |-> data.d.frame_type, codec_id |-> data.d.codec_id,
             avc_packet_type |-> data.d.avc_packet_type,
             composition_time |-> data.d.composition_time, data |-> data.d.data]
      [] OTHER ->
            [kind |-> "ScriptData", timestamp |-> header.timestamp,
             stream_id |-> header.stream_id, data |-> data.d.data]

(***************************************************************************)
(* TagDecoder (tag.rs): header: Peekable<TagHeaderDecoder>, then           *)
(* data: Length<TagDataDecoder> installed from the peeked header.          *)
(***************************************************************************)
TagDecoder_new ==
    [header |-> Peekable_new(TagHeaderDecoder_new), data |-> Length_new(TagDataDecoder_None, 0)]

\* `if !self.header.is_idle() { bytecodec_try_decode!(self.header, ...);
\*  self.data = data.length(header.data_size) }`.  Peekable::decode finishes
\* the header decoder as soon as it is idle, so an unknown tag type is an
\* error of decode.
TagDecoder_try_header(a, buf, eos) ==
    IF Peekable_is_idle(a.d.header) THEN a
    ELSE Only({
         LET full == r.err = "Ok" /\ TagHeaderDecoder_is_idle(r.d)
             fin == TagHeaderDecoder_finish(r.d)
             done == full /\ fin.err = "Ok"
             p == IF full THEN [inner |-> fin.d, item |-> IF done THEN <<fin.item>> ELSE <<>>]
                  ELSE [inner |-> r.d, item |-> <<>>]
             data == IF done
                     THEN Length_new(TagDataDecoder_for(fin.item.tag_type), fin.item.data_size)
                     ELSE a.d.data
         IN  [d |-> [header |-> p, data |-> data],
              off |-> a.off + r.n,
              err |-> IF full THEN fin.err ELSE r.err,
              ret |-> ~done] :
         r \in {TagHeaderDecoder_decode(a.d.header.inner, Drop(buf, a.off), eos)}})

\* bytecodec_try_decode!(self.data, offset, buf, eos).
TagDecoder_try_data(a, buf, eos) ==
    IF a.ret \/ Length_is_idle(a.d.data) THEN a
    ELSE Only({[d |-> [a.d EXCEPT !.data = r.d],
                off |-> a.off + r.n,
                err |-> r.err,
                ret |-> r.err # "Ok" \/ ~Length_is_idle(r.d)] :
               r \in {Length_decode(a.d.data, Drop(buf, a.off), eos)}})

TagDecoder_decode(d, buf, eos) ==
    AccRes(TagDecoder_try_data(TagDecoder_try_header(Acc(d), buf, eos), buf, eos))

TagDecoder_is_idle(d) == Peekable_is_idle(d.header) /\ Length_is_idle(d.data)

\* A number, or "Unknown" never: both branches are finite here.
TagDecoder_requiring_bytes(d) ==
    IF Peekable_is_idle(d.header) THEN Length_requiring_bytes(d.data)
    ELSE TagHeaderDecoder_requiring_bytes(d.header.inner)

\* Fault: the peeked header is not given up, so the next tag's header
\* bytes are taken for payload.
TagDecoder_finish_keep_header(d) ==
    LET h == Peekable_finish(d.header)
    IN  IF h.err # "Ok" THEN [d |-> d, err |-> h.err, item |-> <<>>]
        ELSE Only({IF dat.err # "Ok"
                   THEN [d |-> [header |-> h.d, data |-> dat.d], err |-> dat.err, item |-> <<>>]
                   ELSE [d |-> [header |-> d.header, data |-> dat.d], err |-> "Ok",
                         item |-> Tag_from(h.item, dat.item)] :
                   dat \in {Length_finish(d.data)}})

TagDecoder_finish(d) ==
    LET h == Peekable_finish(d.header)
    IN  IF h.err # "Ok" THEN [d |-> d, err |-> h.err, item |-> <<>>]
        ELSE Only({IF dat.err # "Ok"
                   THEN [d |-> [header |-> h.d, data |-> dat.d], err |-> dat.err, item |-> <<>>]
                   ELSE [d |-> [header |-> h.d, data |-> dat.d], err |-> "Ok",
                         item |-> Tag_from(h.item, dat.item)] :
                   dat \in {Length_finish(d.data)}})

(***************************************************************************)
(* HeaderDecoder (header.rs): signature, version, flags, data offset and   *)
(* data_offset - 9 padding bytes behind a Length<PaddingDecoder>.          *)
(***************************************************************************)
HeaderDecoder_new ==
    [signature |-> <<>>, version |-> <<>>, flags |-> <<>>,
     data_offset |-> Peekable_new(<<>>),
     padding |-> [eos |-> FALSE, expected_bytes |-> 0, remaining_bytes |-> 0]]

\* Fault: a data offset below 9 is taken as 9.
HeaderDecoder_try_data_offset_lenient(a, buf, eos) ==
    IF a.ret \/ Peekable_is_idle(a.d.data_offset) THEN a
    ELSE LET r == Bytes_decode(a.d.data_offset.inner, 4, Drop(buf, a.off), eos)
             done == r.err = "Ok" /\ Len(r.d) = 4
             offset == IF BE(r.d) < HEADER_SIZE THEN HEADER_SIZE ELSE BE(r.d)
             p == IF done THEN [inner |-> <<>>, item |-> <<offset>>]
                  ELSE [inner |-> r.d, item |-> <<>>]
             padding == IF done
                        THEN [a.d.padding EXCEPT !.expected_bytes = offset - HEADER_SIZE,
                                                 !.remaining_bytes = offset - HEADER_SIZE]
                        ELSE a.d.padding
         IN  [d |-> [a.d EXCEPT !.data_offset = p, !.padding = padding],
              off |-> a.off + r.n,
              err |-> r.err,
              ret |-> ~done]

\* `if !self.data_offset.is_idle() { bytecodec_try_decode!(self.data_offset,
\*  ...); track_assert!(offset >= HEADER_SIZE); set_expected_bytes(..) }`.
HeaderDecoder_try_data_offset(a, buf, eos) ==
    IF a.ret \/ Peekable_is_idle(a.d.data_offset) THEN a
    ELSE LET r == Bytes_decode(a.d.data_offset.inner, 4, Drop(buf, a.off), eos)
             done == r.err = "Ok" /\ Len(r.d) = 4
             offset == BE(r.d)
             p == IF done THEN [inner |-> <<>>, item |-> <<offset>>]
                  ELSE [inner |-> r.d, item |-> <<>>]
             bad == done /\ offset < HEADER_SIZE
             padding == IF done /\ ~bad
                        THEN [a.d.padding EXCEPT !.expected_bytes = offset - HEADER_SIZE,
                                                 !.remaining_bytes = offset - HEADER_SIZE]
                        ELSE a.d.padding
         IN  [d |-> [a.d EXCEPT !.data_offset = p, !.padding = padding],
              off |-> a.off + r.n,
              err |-> IF bad THEN "InvalidInput" ELSE r.err,
              ret |-> ~done \/ bad]

\* bytecodec_try_decode!(self.padding, ...): Length<PaddingDecoder>, whose
\* inner decoder skips bytes until it is shown the end of the bounded part.
HeaderDecoder_try_padding(a, buf, eos) ==
    IF a.ret \/ a.d.padding.eos THEN a
    ELSE LET rest == Drop(buf, a.off)
             limit == Min(Len(rest), a.d.padding.remaining_bytes)
             required == a.d.padding.remaining_bytes - limit
         IN  IF eos /\ Len(rest) - limit < required
             THEN [a EXCEPT !.err = "UnexpectedEos", !.ret = TRUE]
             ELSE [d |-> [a.d EXCEPT !.padding.eos = (required = 0),
                                     !.padding.remaining_bytes = required],
                   off |-> a.off + limit,
                   err |-> "Ok",
                   ret |-> required # 0]

\* Fault: the signature is compared with "FLV" as soon as it is read.
HeaderDecoder_decode_eager_signature(d, buf, eos) ==
    LET a1 == TryBytes(Acc(d), "signature", 3, buf, eos)
        a2 == TryBytes(a1, "version", 1, buf, eos)
        a3 == TryBytes(a2, "flags", 1, buf, eos)
        a4 == HeaderDecoder_try_data_offset(a3, buf, eos)
        a5 == HeaderDecoder_try_padding(a4, buf, eos)
    IN  IF Len(a1.d.signature) = 3 /\ a1.d.signature # SIGNATURE
        THEN Res(a1.d, a1.off, "InvalidInput")
        ELSE AccRes(a5)

HeaderDecoder_decode(d, buf, eos) ==
    LET a1 == TryBytes(Acc(d), "signature", 3, buf, eos)
        a2 == TryBytes(a1, "version", 1, buf, eos)
        a3 == TryBytes(a2, "flags", 1, buf, eos)
        a4 == HeaderDecoder_try_data_offset(a3, buf, eos)
        a5 == HeaderDecoder_try_padding(a4, buf, eos)
    IN  AccRes(a5)

HeaderDecoder_is_idle(d) ==
    /\ Len(d.signature) = 3
    /\ Len(d.version) = 1
    /\ Len(d.flags) = 1
    /\ Peekable_is_idle(d.data_offset)
    /\ d.padding.eos

\* Fault: the signature is read and not compared with "FLV".
HeaderDecoder_finish_any_signature(d) ==
    LET flags == d.flags[1]
    IN  IF Len(d.signature) # 3 THEN [d |-> d, err |-> "IncompleteDecoding", item |-> <<>>]
        ELSE IF Len(d.version) # 1
        THEN [d |-> [d EXCEPT !.signature = <<>>], err |-> "IncompleteDecoding", item |-> <<>>]
        ELSE IF d.version[1] # VERSION
        THEN [d |-> [d EXCEPT !.signature = <<>>, !.version = <<>>],
              err |-> "InvalidInput", item |-> <<>>]
        ELSE IF Len(d.flags) # 1
        THEN [d |-> [d EXCEPT !.signature = <<>>, !.version = <<>>],
              err |-> "IncompleteDecoding", item |-> <<>>]
        ELSE [d |-> HeaderDecoder_new, err |-> "Ok",
              item |-> [has_audio |-> (flags \div FLAG_AUDIO) % 2 # 0,
                        has_video |-> (flags \div FLAG_VIDEO) % 2 # 0]]

\* Fault: has_audio is taken from bit 1 of the flags.
HeaderDecoder_finish_bit1(d) ==
    LET flags == d.flags[1]
    IN  IF Len(d.signature) # 3 THEN [d |-> d, err |-> "IncompleteDecoding", item |-> <<>>]
        ELSE IF d.signature # SIGNATURE
        THEN [d |-> [d EXCEPT !.signature = <<>>], err |-> "InvalidInput", item |-> <<>>]
        ELSE IF Len(d.version) # 1
        THEN [d |-> [d EXCEPT !.signature = <<>>], err |-> "IncompleteDecoding", item |-> <<>>]
        ELSE IF d.version[1] # VERSION
        THEN [d |-> [d EXCEPT !.signature = <<>>, !.version = <<>>],
              err |-> "InvalidInput", item |-> <<>>]
        ELSE IF Len(d.flags) # 1
        THEN [d |-> [d EXCEPT !.signature = <<>>, !.version = <<>>],
              err |-> "IncompleteDecoding", item |-> <<>>]
        ELSE [d |-> HeaderDecoder_new, err |-> "Ok",
              item |-> [has_audio |-> (flags \div 2) % 2 # 0,
                        has_video |-> (flags \div FLAG_VIDEO) % 2 # 0]]

\* finish_decoding: the signature and the version are checked here.
HeaderDecoder_finish(d) ==
    LET flags == d.flags[1]
    IN  IF Len(d.signature) # 3 THEN [d |-> d, err |-> "IncompleteDecoding", item |-> <<>>]
        ELSE IF d.signature # SIGNATURE
        THEN [d |-> [d EXCEPT !.signature = <<>>], err |-> "InvalidInput", item |-> <<>>]
        ELSE IF Len(d.version) # 1
        THEN [d |-> [d EXCEPT !.signature = <<>>], err |-> "IncompleteDecoding", item |-> <<>>]
        ELSE IF d.version[1] # VERSION
        THEN [d |-> [d EXCEPT !.signature = <<>>, !.version = <<>>],
              err |-> "InvalidInput", item |-> <<>>]
        ELSE IF Len(d.flags) # 1
        THEN [d |-> [d EXCEPT !.signature = <<>>, !.version = <<>>],
              err |-> "IncompleteDecoding", item |-> <<>>]
        ELSE [d |-> HeaderDecoder_new, err |-> "Ok",
              item |-> [has_audio |-> (flags \div FLAG_AUDIO) % 2 # 0,
                        has_video |-> (flags \div FLAG_VIDEO) % 2 # 0]]

(***************************************************************************)
(* Tag::tag_size and Tag::kind, which file.rs calls: the encoded length of *)
(* a tag, 11 header bytes, the payload's sub-fields and the data.          *)
(***************************************************************************)
Tag_size(tag) ==
    CASE tag.kind = "Audio" ->
            TAG_HEADER_SIZE + 1 + Len(tag.aac_packet_type) + Len(tag.data)
      [] tag.kind = "Video" ->
            TAG_HEADER_SIZE + 1 + Len(tag.avc_packet_type)
                + 3 * Len(tag.composition_time) + Len(tag.data)
      [] OTHER -> TAG_HEADER_SIZE + Len(tag.data)

(***************************************************************************)
(* FileDecoder (file.rs): header: Peekable<TupleDecoder<(HeaderDecoder,    *)
(* U32beDecoder)>>, tag: MaybeEos<TagDecoder>, prev_tag_size: U32beDecoder. *)
(***************************************************************************)
FileDecoder_new ==
    [header |-> Peekable_new([h |-> HeaderDecoder_new, p |-> <<>>]),
     tag |-> [inner |-> TagDecoder_new, started |-> FALSE],
     prev_tag_size |-> <<>>]

\* FileDecoder::header
FileDecoder_header(fd) == IF fd.header.item = <<>> THEN <<>> ELSE <<fd.header.item[1].header>>

\* TupleDecoder<(HeaderDecoder, U32beDecoder)>::decode
FileHeader_tuple_decode(t, buf, eos) ==
    Only({
    LET stop == h.err # "Ok" \/ ~HeaderDecoder_is_idle(h.d)
        p == IF stop \/ Len(t.p) = 4 THEN Res(t.p, 0, "Ok")
             ELSE Bytes_decode(t.p, 4, Drop(buf, h.n), eos)
    IN  Res([h |-> h.d, p |-> p.d], h.n + p.n, IF h.err # "Ok" THEN h.err ELSE p.err) :
    h \in {IF HeaderDecoder_is_idle(t.h) THEN Res(t.h, 0, "Ok")
           ELSE HeaderDecoder_decode(t.h, buf, eos)}})

FileHeader_tuple_is_idle(t) == HeaderDecoder_is_idle(t.h) /\ Len(t.p) = 4

\* Fault: the size after the header is read and not compared with 0.
FileDecoder_try_header_unchecked(a, buf, eos) ==
    IF Peekable_is_idle(a.d.header) THEN a
    ELSE Only({
         LET full == r.err = "Ok" /\ FileHeader_tuple_is_idle(r.d)
             fin == HeaderDecoder_finish(r.d.h)
             done == full /\ fin.err = "Ok"
             p == IF done
                  THEN [inner |-> [h |-> fin.d, p |-> <<>>],
                        item |-> <<[header |-> fin.item, prev |-> BE(r.d.p)]>>]
                  ELSE IF full THEN [inner |-> [h |-> fin.d, p |-> r.d.p], item |-> <<>>]
                  ELSE [inner |-> r.d, item |-> <<>>]
         IN  [d |-> [a.d EXCEPT !.header = p],
              off |-> a.off + r.n,
              err |-> IF full THEN fin.err ELSE r.err,
              ret |-> ~done] :
         r \in {FileHeader_tuple_decode(a.d.header.inner, buf, eos)}})

\* `if !self.header.is_idle() { bytecodec_try_decode!(self.header, ...);
\*  track_assert_eq!(prev_tag_size, Some(0), InvalidInput) }`
FileDecoder_try_header(a, buf, eos) ==
    IF Peekable_is_idle(a.d.header) THEN a
    ELSE Only({
         LET full == r.err = "Ok" /\ FileHeader_tuple_is_idle(r.d)
             fin == HeaderDecoder_finish(r.d.h)
             done == full /\ fin.err = "Ok"
             prev == BE(r.d.p)
             p == IF done
                  THEN [inner |-> [h |-> fin.d, p |-> <<>>],
                        item |-> <<[header |-> fin.item, prev |-> prev]>>]
                  ELSE IF full THEN [inner |-> [h |-> fin.d, p |-> r.d.p], item |-> <<>>]
                  ELSE [inner |-> r.d, item |-> <<>>]
         IN  [d |-> [a.d EXCEPT !.header = p],
              off |-> a.off + r.n,
              err |-> IF ~full THEN r.err
                      ELSE IF fin.err # "Ok" THEN fin.err
                      ELSE IF prev # 0 THEN "InvalidInput" ELSE "Ok",
              ret |-> ~done \/ prev # 0] :
         r \in {FileHeader_tuple_decode(a.d.header.inner, buf, eos)}})

\* Fault: the tag decoder is shown the end of stream as it is.
FileDecoder_try_tag_plain(a, buf, eos) ==
    IF a.ret \/ TagDecoder_is_idle(a.d.tag.inner) THEN a
    ELSE Only({[d |-> [a.d EXCEPT !.tag = [inner |-> r.d,
                                          started |-> a.d.tag.started \/ r.n # 0]],
                off |-> a.off + r.n,
                err |-> r.err,
                ret |-> r.err # "Ok" \/ ~TagDecoder_is_idle(r.d)] :
               r \in {TagDecoder_decode(a.d.tag.inner, Drop(buf, a.off), eos)}})

\* bytecodec_try_decode!(self.tag, ...) for tag: MaybeEos<TagDecoder>.
\* MaybeEos hides the end of stream from a decoder that has not started
\* an item, and counts the item as started once bytes were consumed.
FileDecoder_try_tag(a, buf, eos) ==
    IF a.ret \/ TagDecoder_is_idle(a.d.tag.inner) THEN a
    ELSE LET rest == Drop(buf, a.off)
             eos2 == IF ~a.d.tag.started /\ rest = <<>> /\ eos THEN FALSE ELSE eos
         IN  Only({[d |-> [a.d EXCEPT !.tag = [inner |-> r.d,
                                               started |-> a.d.tag.started \/ r.n # 0]],
                    off |-> a.off + r.n,
                    err |-> r.err,
                    ret |-> r.err # "Ok" \/ ~TagDecoder_is_idle(r.d)] :
                   r \in {TagDecoder_decode(a.d.tag.inner, rest, eos2)}})

FileDecoder_decode(fd, buf, eos) ==
    LET a1 == FileDecoder_try_header(Acc(fd), buf, eos)
        a2 == FileDecoder_try_tag(a1, buf, eos)
        a3 == TryBytes(a2, "prev_tag_size", 4, buf, eos)
    IN  AccRes(a3)

\* HeaderDecoder::requiring_bytes: the sum over the five fields; a
\* Peekable that holds its item requires nothing, and the padding requires
\* what is left of the length set from the data offset (0 before it is known).
HeaderDecoder_requiring_bytes(d) ==
    (3 - Len(d.signature)) + (1 - Len(d.version)) + (1 - Len(d.flags))
        + (IF Peekable_is_idle(d.data_offset) THEN 0 ELSE 4 - Len(d.data_offset.inner))
        + d.padding.remaining_bytes

\* Fault: the tag's requirement is left out of the sum.
FileDecoder_requiring_bytes_no_tag(fd) ==
    (IF Peekable_is_idle(fd.header) THEN 0
     ELSE HeaderDecoder_requiring_bytes(fd.header.inner.h) + (4 - Len(fd.header.inner.p)))
        + (4 - Len(fd.prev_tag_size))

\* FileDecoder::requiring_bytes: header, tag and prev_tag_size added.
FileDecoder_requiring_bytes(fd) ==
    (IF Peekable_is_idle(fd.header) THEN 0
     ELSE HeaderDecoder_requiring_bytes(fd.header.inner.h) + (4 - Len(fd.header.inner.p)))
        + TagDecoder_requiring_bytes(fd.tag.inner)
        + (4 - Len(fd.prev_tag_size))

\* Fault: the size field after the tag is not waited for.
FileDecoder_is_idle_tag_only(fd) == TagDecoder_is_idle(fd.tag.inner)

FileDecoder_is_idle(fd) == TagDecoder_is_idle(fd.tag.inner) /\ Len(fd.prev_tag_size) = 4

\* Fault: the size that follows the tag is not compared with the tag's.
FileDecoder_finish_unchecked(fd) ==
    Only({
    LET d1 == [fd EXCEPT !.tag = [inner |-> t.d, started |-> FALSE]]
        p == Bytes_finish(fd.prev_tag_size, 4)
        d2 == [d1 EXCEPT !.prev_tag_size = p.d]
    IN  IF t.err # "Ok" THEN [d |-> d1, err |-> t.err, item |-> <<>>]
        ELSE IF p.err # "Ok" THEN [d |-> d2, err |-> p.err, item |-> <<>>]
        ELSE [d |-> d2, err |-> "Ok", item |-> <<t.item>>] :
    t \in {TagDecoder_finish(fd.tag.inner)}})

\* Fault: an incomplete size field is dropped and the tag returned.
FileDecoder_finish_lenient(fd) ==
    Only({
    LET d1 == [fd EXCEPT !.tag = [inner |-> t.d, started |-> FALSE]]
        p == Bytes_finish(fd.prev_tag_size, 4)
        d2 == [d1 EXCEPT !.prev_tag_size = <<>>]
    IN  IF t.err # "Ok" THEN [d |-> d1, err |-> t.err, item |-> <<>>]
        ELSE IF p.err = "Ok" /\ Tag_size(t.item) # BE(p.item)
        THEN [d |-> d2, err |-> "InvalidInput", item |-> <<>>]
        ELSE [d |-> d2, err |-> "Ok", item |-> <<t.item>>] :
    t \in {TagDecoder_finish(fd.tag.inner)}})

\* Fault: handing out a tag also drops the peeked file header.
FileDecoder_finish_forgetful(fd) ==
    Only({
    LET d1 == [fd EXCEPT !.tag = [inner |-> t.d, started |-> FALSE]]
        p == Bytes_finish(fd.prev_tag_size, 4)
        d2 == [d1 EXCEPT !.prev_tag_size = p.d, !.header.item = <<>>]
    IN  IF t.err # "Ok" THEN [d |-> d1, err |-> t.err, item |-> <<>>]
        ELSE IF p.err # "Ok" THEN [d |-> d2, err |-> p.err, item |-> <<>>]
        ELSE IF Tag_size(t.item) # BE(p.item) THEN [d |-> d2, err |-> "InvalidInput", item |-> <<>>]
        ELSE [d |-> d2, err |-> "Ok", item |-> <<t.item>>] :
    t \in {TagDecoder_finish(fd.tag.inner)}})

\* finish_decoding: the tag, then the size that follows it, which must be
\* the tag's own size.
\* Fault: the size is compared before the size field is taken out, which
\* stays in the decoder when the comparison fails.
FileDecoder_finish_keep_size(fd) ==
    Only({
    LET d1 == [fd EXCEPT !.tag = [inner |-> t.d, started |-> FALSE]]
        p == Bytes_finish(fd.prev_tag_size, 4)
        d2 == [d1 EXCEPT !.prev_tag_size = p.d]
    IN  IF t.err # "Ok" THEN [d |-> d1, err |-> t.err, item |-> <<>>]
        ELSE IF p.err # "Ok" THEN [d |-> d2, err |-> p.err, item |-> <<>>]
        ELSE IF Tag_size(t.item) # BE(p.item) THEN [d |-> d1, err |-> "InvalidInput", item |-> <<>>]
        ELSE [d |-> d2, err |-> "Ok", item |-> <<t.item>>] :
    t \in {TagDecoder_finish(fd.tag.inner)}})

FileDecoder_finish(fd) ==
    Only({
    LET d1 == [fd EXCEPT !.tag = [inner |-> t.d, started |-> FALSE]]
        p == Bytes_finish(fd.prev_tag_size, 4)
        d2 == [d1 EXCEPT !.prev_tag_size = p.d]
    IN  IF t.err # "Ok" THEN [d |-> d1, err |-> t.err, item |-> <<>>]
        ELSE IF p.err # "Ok" THEN [d |-> d2, err |-> p.err, item |-> <<>>]
        ELSE IF Tag_size(t.item) # BE(p.item) THEN [d |-> d2, err |-> "InvalidInput", item |-> <<>>]
        ELSE [d |-> d2, err |-> "Ok", item |-> <<t.item>>] :
    t \in {TagDecoder_finish(fd.tag.inner)}})

(***************************************************************************)
(* Encoding.  TagEncoder writes the 11-byte header, the payload's          *)
(* conditional fields and the data, in the order the decoder reads them.   *)
(***************************************************************************)
TagEncoder_bytes(tag) ==
    LET type == CASE tag.kind = "Audio" -> TAG_TYPE_AUDIO
                  [] tag.kind = "Video" -> TAG_TYPE_VIDEO
                  [] OTHER -> TAG_TYPE_SCRIPT_DATA
        head == <<type>> \o ToBE(Tag_size(tag) - TAG_HEADER_SIZE, 3)
                    \o ToBE(tag.timestamp % Pow24, 3)
                    \o <<(tag.timestamp \div Pow24) % 256>>
                    \o ToBE(tag.stream_id, 3)
        body == CASE tag.kind = "Audio" ->
                        <<tag.sound_format * 16 + tag.sound_rate * 4
                              + tag.sound_size * 2 + tag.sound_type>>
                            \o tag.aac_packet_type
                  [] tag.kind = "Video" ->
                        <<tag.frame_type * 16 + tag.codec_id>>
                            \o tag.avc_packet_type
                            \o (IF tag.composition_time = <<>> THEN <<>>
                                ELSE ToBE(tag.composition_time[1] % Pow24, 3))
                  [] OTHER -> <<>>
    IN  head \o body \o tag.data

\* Fault: the two flag bits are exchanged.
HeaderEncoder_bytes_swapped(h) ==
    LET flags == (IF h.has_audio THEN 1 ELSE 0) * FLAG_VIDEO
                    + (IF h.has_video THEN 1 ELSE 0) * FLAG_AUDIO
    IN  SIGNATURE \o <<VERSION>> \o <<flags>> \o ToBE(HEADER_SIZE, 4)

\* HeaderEncoder::start_encoding (header.rs): the 9 bytes of a header.
HeaderEncoder_bytes(h) ==
    LET flags == (IF h.has_audio THEN 1 ELSE 0) * FLAG_AUDIO
                    + (IF h.has_video THEN 1 ELSE 0) * FLAG_VIDEO
    IN  SIGNATURE \o <<VERSION>> \o <<flags>> \o ToBE(HEADER_SIZE, 4)

(***************************************************************************)
(* FileEncoder (file.rs).  Each of the three encoders is the sequence of   *)
(* bytes it still has to write.                                            *)
(***************************************************************************)
\* FileEncoder::new: TupleEncoder::default().last((header, 0))
FileEncoder_new(h) ==
    [header |-> HeaderEncoder_bytes(h) \o ToBE(0, 4), tag |-> <<>>, prev_tag_size |-> <<>>]

\* Fault: the tag is written before the file header.
FileEncoder_encode_tag_first(e, room) ==
    LET n2 == Min(room, Len(e.tag))
        n1 == IF n2 < Len(e.tag) THEN 0 ELSE Min(room - n2, Len(e.header))
        n3 == IF n1 < Len(e.header) \/ n2 < Len(e.tag) THEN 0
              ELSE Min(room - n1 - n2, Len(e.prev_tag_size))
    IN  [d |-> [header |-> Drop(e.header, n1), tag |-> Drop(e.tag, n2),
                prev_tag_size |-> Drop(e.prev_tag_size, n3)],
         bytes |-> Take(e.tag, n2) \o Take(e.header, n1) \o Take(e.prev_tag_size, n3)]

\* bytecodec_try_encode! on header, tag and prev_tag_size into a buffer of
\* `room` bytes.
FileEncoder_encode(e, room) ==
    LET n1 == Min(room, Len(e.header))
        n2 == IF n1 < Len(e.header) THEN 0 ELSE Min(room - n1, Len(e.tag))
        n3 == IF n1 < Len(e.header) \/ n2 < Len(e.tag) THEN 0
              ELSE Min(room - n1 - n2, Len(e.prev_tag_size))
    IN  [d |-> [header |-> Drop(e.header, n1), tag |-> Drop(e.tag, n2),
                prev_tag_size |-> Drop(e.prev_tag_size, n3)],
         bytes |-> Take(e.header, n1) \o Take(e.tag, n2) \o Take(e.prev_tag_size, n3)]

\* Fault: the size written after the tag is the payload's, not the tag's.
FileEncoder_start_encoding_datasize(e, item) ==
    IF e.tag # <<>> \/ e.prev_tag_size # <<>> THEN [d |-> e, err |-> "EncoderFull"]
    ELSE [d |-> [e EXCEPT !.tag = TagEncoder_bytes(item),
                          !.prev_tag_size = ToBE(Tag_size(item) - TAG_HEADER_SIZE, 4)],
          err |-> "Ok"]

\* start_encoding: a busy tag or size encoder refuses the item.
FileEncoder_start_encoding(e, item) ==
    IF e.tag # <<>> \/ e.prev_tag_size # <<>> THEN [d |-> e, err |-> "EncoderFull"]
    ELSE [d |-> [e EXCEPT !.tag = TagEncoder_bytes(item),
                          !.prev_tag_size = ToBE(Tag_size(item), 4)],
          err |-> "Ok"]

FileEncoder_is_idle(e) == e.header = <<>> /\ e.tag = <<>> /\ e.prev_tag_size = <<>>

\* Fault: the size field after the tag is not counted.
FileEncoder_exact_requiring_bytes_no_size(e) == Len(e.header) + Len(e.tag)

FileEncoder_exact_requiring_bytes(e) == Len(e.header) + Len(e.tag) + Len(e.prev_tag_size)

\* The bytes of a whole file: what FileEncoder writes for these tags.
RECURSIVE TagsBytes(_)
TagsBytes(ts) ==
    IF ts = <<>> THEN <<>>
    ELSE TagEncoder_bytes(Head(ts)) \o ToBE(Tag_size(Head(ts)), 4) \o TagsBytes(Tail(ts))

FileBytes(h, ts) == HeaderEncoder_bytes(h) \o ToBE(0, 4) \o TagsBytes(ts)

(***************************************************************************)
(* The inputs.  A file is written by the encoder from a header and a       *)
(* sequence of tags, and then possibly damaged in one place.               *)
(***************************************************************************)
MaxTags == 2

MaxChunk == 3

AudioAac ==
    [kind |-> "Audio", timestamp |-> 0, stream_id |-> 0, sound_format |-> 10,
     sound_rate |-> 3, sound_size |-> 1, sound_type |-> 1,
     aac_packet_type |-> <<1>>, data |-> <<33, 34, 35>>]

AudioMp3 ==
    [kind |-> "Audio", timestamp |-> -1, stream_id |-> 0, sound_format |-> 2,
     sound_rate |-> 0, sound_size |-> 0, sound_type |-> 0,
     aac_packet_type |-> <<>>, data |-> <<5>>]

VideoAvcKey ==
    [kind |-> "Video", timestamp |-> 25, stream_id |-> 0, frame_type |-> 1,
     codec_id |-> 7, avc_packet_type |-> <<1>>, composition_time |-> <<-2>>,
     data |-> <<7>>]

VideoAvcInfo ==
    [kind |-> "Video", timestamp |-> Pow24, stream_id |-> 0, frame_type |-> 5,
     codec_id |-> 7, avc_packet_type |-> <<>>, composition_time |-> <<>>,
     data |-> <<0>>]

VideoH263 ==
    [kind |-> "Video", timestamp |-> 0, stream_id |-> 1, frame_type |-> 2,
     codec_id |-> 2, avc_packet_type |-> <<>>, composition_time |-> <<>>,
     data |-> <<>>]

Script == [kind |-> "ScriptData", timestamp |-> 0, stream_id |-> 0, data |-> <<2, 0>>]

ScriptEmpty == [kind |-> "ScriptData", timestamp |-> 40, stream_id |-> 0, data |-> <<>>]

TagMenu == {AudioAac, AudioMp3, VideoAvcKey, VideoAvcInfo, VideoH263, Script, ScriptEmpty}

\* The tags that may follow the first one.
FollowMenu == {AudioMp3, VideoAvcInfo, Script}

\* The sequences of at most MaxTags tags: any tag of the menu first, then
\* tags of FollowMenu.
RECURSIVE TagSeqsOf(_)
TagSeqsOf(n) ==
    IF n = 0 THEN {<<>>}
    ELSE IF n = 1 THEN {<<t>> : t \in TagMenu}
    ELSE {Append(ts, t) : ts \in TagSeqsOf(n - 1), t \in FollowMenu}

TagSeqs == UNION {TagSeqsOf(n) : n \in 0 .. MaxTags}

Headers == {[has_audio |-> a, has_video |-> v] : a, v \in BOOLEAN}

DefaultHeader == [has_audio |-> TRUE, has_video |-> TRUE]

\* Damage to the file header and to the field after it.
HeaderDefects == {"first_prev_nonzero", "bad_signature", "bad_version", "offset_8", "offset_10"}

\* Damage to the first tag and to the size after it.
TagDefects == {"trailing_plus", "trailing_minus", "data_size_minus", "data_size_plus", "bad_tag_type"}

\* The damaged files start with one tag of the menu, some with a tag after it.
DefectSeqs == {<<t>> : t \in TagMenu} \cup {<<t, Script>> : t \in {AudioAac, VideoAvcKey}}

Sources ==
    {[hdr |-> DefaultHeader, orig |-> ts, defect |-> "none"] : ts \in TagSeqs}
        \cup {[hdr |-> h, orig |-> <<Script>>, defect |-> "none"] : h \in Headers}
        \cup {[hdr |-> DefaultHeader, orig |-> <<AudioAac>>, defect |-> df] : df \in HeaderDefects}
        \cup {[hdr |-> DefaultHeader, orig |-> ts, defect |-> df] :
                ts \in DefectSeqs, df \in TagDefects}

\* Index of the first byte of the first tag.
FirstTag == HEADER_SIZE + 4 + 1

Bump(bs, i, delta) == [bs EXCEPT ![i] = (@ + delta) % 256]

ApplyDefect(bs, src) ==
    LET d == src.defect
        size1 == Tag_size(src.orig[1])
    IN  CASE d = "first_prev_nonzero" -> Bump(bs, FirstTag - 1, 1)
          [] d = "trailing_plus" -> Bump(bs, FirstTag + size1 + 3, 1)
          [] d = "trailing_minus" -> Bump(bs, FirstTag + size1 + 3, -1)
          [] d = "data_size_minus" -> Bump(bs, FirstTag + 3, -1)
          [] d = "data_size_plus" -> Bump(bs, FirstTag + 3, 1)
          [] d = "bad_tag_type" -> Bump(bs, FirstTag, 2)
          [] d = "bad_signature" -> [bs EXCEPT ![1] = 0]
          [] d = "bad_version" -> Bump(bs, 4, 1)
          [] d = "offset_8" -> Bump(bs, HEADER_SIZE, -1)
          [] d = "offset_10" ->
                Take(Bump(bs, HEADER_SIZE, 1), HEADER_SIZE) \o <<255>> \o Drop(bs, HEADER_SIZE)
          [] OTHER -> bs

InputOf(src) == ApplyDefect(FileBytes(src.hdr, src.orig), src)

(***************************************************************************)
(* The state: the byte stream and how far it has been delivered and        *)
(* consumed, the FileDecoder, the tags it returned, and the FileEncoder    *)
(* that re-encodes them with what it has written.  `base` records the      *)
(* stream offset at which the item the decoder is working on began.        *)
(***************************************************************************)
VARIABLES source, input, avail, pos, eos, decoder, tags, status, last, phase, encoder, out, base

vars == <<source, input, avail, pos, eos, decoder, tags, status, last, phase, encoder, out, base>>

Init ==
    /\ source \in Sources
    /\ input = InputOf(source)
    /\ avail = 0
    /\ pos = 0
    /\ eos = FALSE
    /\ decoder = FileDecoder_new
    /\ tags = <<>>
    /\ status = "running"
    /\ last = [op |-> "new", err |-> "Ok"]
    /\ phase = "decode"
    /\ encoder = FileEncoder_new(source.hdr)
    /\ out = <<>>
    /\ base = 0

Buffer == SubSeq(input, pos + 1, avail)

\* The reader hands over the next chunk once the last one is used up.
Fill(k) ==
    /\ status = "running" /\ phase = "decode" /\ ~eos
    /\ pos = avail
    /\ k >= 1 /\ avail + k <= Len(input)
    /\ avail' = avail + k
    /\ UNCHANGED <<source, input, pos, eos, decoder, tags, status, last, phase, encoder, out, base>>

\* The reader finds the stream ended: the file is the bytes delivered so far.
SignalEos ==
    /\ status = "running" /\ phase = "decode" /\ ~eos
    /\ eos' = TRUE
    /\ UNCHANGED <<source, input, avail, pos, decoder, tags, status, last, phase, encoder, out, base>>

\* decoder.decode(buffer, eos)
Decode ==
    /\ status = "running" /\ phase = "decode"
    /\ pos < avail \/ eos
    /\ \E r \in {FileDecoder_decode(decoder, Buffer, eos)} :
           /\ decoder' = r.d
           /\ last' = [op |-> "decode", err |-> r.err]
           /\ status' = IF r.err = "Ok" THEN "running" ELSE "failed"
           /\ pos' = IF r.err = "Ok" THEN pos + r.n ELSE pos
    /\ UNCHANGED <<source, input, avail, eos, tags, phase, encoder, out, base>>

\* decoder.finish_decoding().  A caller that asks while the decoder is not
\* idle stops at the error; after an error on an idle decoder the caller
\* may go on with the next tag.
FinishDecoding ==
    /\ status = "running" /\ phase = "decode"
    /\ \E r \in {FileDecoder_finish(decoder)} :
           /\ decoder' = r.d
           /\ last' = [op |-> "finish", err |-> r.err]
           /\ tags' = tags \o r.item
           /\ status' = IF r.err # "Ok" /\ ~FileDecoder_is_idle(decoder) THEN "failed" ELSE "running"
           /\ phase' = IF r.err = "Ok" THEN "start" ELSE "decode"
    /\ base' = IF FileDecoder_is_idle(decoder) THEN pos ELSE base
    /\ UNCHANGED <<source, input, avail, pos, eos, encoder, out>>

\* encoder.start_encoding(tag) with the tag just decoded.
StartEncoding ==
    /\ status = "running" /\ phase = "start"
    /\ LET r == FileEncoder_start_encoding(encoder, tags[Len(tags)])
       IN  /\ encoder' = r.d
           /\ status' = IF r.err = "Ok" THEN "running" ELSE "failed"
    /\ phase' = "encode"
    /\ UNCHANGED <<source, input, avail, pos, eos, decoder, tags, last, out, base>>

\* encoder.encode(buf) with a buffer of `room` bytes, until the encoder is idle.
Encode(room) ==
    /\ status = "running" /\ phase = "encode"
    /\ room <= FileEncoder_exact_requiring_bytes(encoder)
    /\ LET r == FileEncoder_encode(encoder, room)
       IN  /\ encoder' = r.d
           /\ out' = out \o r.bytes
           /\ phase' = IF FileEncoder_is_idle(r.d) THEN "decode" ELSE "encode"
    /\ UNCHANGED <<source, input, avail, pos, eos, decoder, tags, status, last, base>>

Next ==
    \/ \E k \in (1 .. MaxChunk) \cup {Len(input) - avail} : Fill(k)
    \/ SignalEos
    \/ Decode
    \/ FinishDecoding
    \/ StartEncoding
    \/ \E room \in {MaxChunk, FileEncoder_exact_requiring_bytes(encoder)} : Encode(room)

Spec == Init /\ [][Next]_vars

(***************************************************************************)
(* Reference notions for the properties: the framing of the stream as the  *)
(* format lays it out, read off the input bytes themselves.                *)
(***************************************************************************)
\* Offset at which the tag the decoder is working on begins: after the
\* header and the first size field for the first tag, `base` afterwards.
TagStart == IF base = 0 THEN BE(SubSeq(input, 6, 9)) + 4 ELSE base

\* The header the decoder has peeked for the tag in progress.
PeekedHeader == decoder.tag.inner.header.item[1]

\* Bytes of the payload that are not data, by the kind of tag.
SubFieldBytes(t) ==
    CASE t.kind = "Audio" -> IF t.sound_format = Aac THEN 2 ELSE 1
      [] t.kind = "Video" ->
            IF t.codec_id = Avc /\ t.frame_type # VideoInfoOrCommandFrame THEN 5 ELSE 1
      [] OTHER -> 0

\* The source is a file as the encoder writes it.
WellFormed == source.defect = "none"

\* Every byte of a well-formed file was delivered and consumed and every
\* tag handed out.
RunComplete ==
    /\ WellFormed
    /\ status = "running"
    /\ pos = Len(input)
    /\ Peekable_is_idle(decoder.header)
    /\ decoder.prev_tag_size = <<>>
    /\ phase # "start"

\* The whole string fed as one buffer: decode, finish_decoding when idle,
\* and again on what is left.
RECURSIVE WholeRun(_, _, _)
WholeRun(fd, buf, acc) ==
    Only({IF r.err # "Ok" \/ ~FileDecoder_is_idle(r.d)
          THEN [tags |-> acc, header |-> FileDecoder_header(r.d), err |-> r.err]
          ELSE Only({IF f.err # "Ok"
                     THEN [tags |-> acc, header |-> FileDecoder_header(f.d), err |-> f.err]
                     ELSE WholeRun(f.d, Drop(buf, r.n), acc \o f.item) :
                     f \in {FileDecoder_finish(r.d)}}) :
          r \in {FileDecoder_decode(fd, buf, TRUE)}})

IsPrefix(s, t) == Len(s) <= Len(t) /\ s = Take(t, Len(s))

(***************************************************************************)
(* C1.  Chunked-delivery invariance: on a well-formed file, however the    *)
(* bytes are split into chunks, the tags handed out so far are the first   *)
(* tags of the one-buffer run and the header, once known, is its header;   *)
(* when the run is complete the tags and the header are exactly those of   *)
(* the one-buffer run.                                                     *)
(***************************************************************************)
C1_ChunkedDeliveryInvariance ==
    WellFormed =>
        \A w \in {WholeRun(FileDecoder_new, input, <<>>)} :
            /\ w.err = "Ok"
            /\ IsPrefix(tags, w.tags)
            /\ FileDecoder_header(decoder) \in {<<>>, w.header}
            /\ RunComplete => tags = w.tags /\ FileDecoder_header(decoder) = w.header

C1_Witness ==
    /\ RunComplete
    /\ Len(tags) = MaxTags
    /\ tags[1].kind = "Video" /\ tags[1].data # <<>>
    /\ FileDecoder_header(decoder) # <<>>
    /\ tags = WholeRun(FileDecoder_new, input, <<>>).tags

(***************************************************************************)
(* C2.  Byte-exact reproduction: when a well-formed file (data offset 9)   *)
(* has been decoded to its end and every tag passed to the encoder, what   *)
(* the encoder has written followed by what encoding to completion still   *)
(* writes is the input file.                                               *)
(***************************************************************************)
C2_ByteExactReproduction ==
    RunComplete =>
        out \o FileEncoder_encode(encoder, FileEncoder_exact_requiring_bytes(encoder)).bytes
            = input

C2_Witness ==
    /\ RunComplete
    /\ Len(tags) = MaxTags
    /\ FileEncoder_is_idle(encoder)
    /\ out = input

(***************************************************************************)
(* C3.  Round trip: the tags decoded from an encoded file are the tags it  *)
(* was encoded from, field for field, and tag_size of each is the number   *)
(* of bytes the encoder writes for it, which is the size it writes after   *)
(* it.                                                                     *)
(***************************************************************************)
C3_RoundTrip ==
    WellFormed =>
        /\ IsPrefix(tags, source.orig)
        /\ RunComplete => tags = source.orig
        /\ \A i \in 1 .. Len(tags) :
              \A e \in {FileEncoder_start_encoding(FileEncoder_new(source.hdr), tags[i]).d} :
                  /\ Tag_size(tags[i]) = Len(e.tag)
                  /\ BE(e.prev_tag_size) = Len(e.tag)
                  /\ Len(e.tag) = TAG_HEADER_SIZE + SubFieldBytes(tags[i]) + Len(tags[i].data)

C3_Witness ==
    /\ RunComplete
    /\ tags = <<VideoAvcKey, AudioMp3>>
    /\ tags = source.orig

(***************************************************************************)
(* C4.  Size cross-validation: when a tag and the 4-byte size after it     *)
(* have been read, finish_decoding returns the tag if that size equals     *)
(* tag_size of the tag, and otherwise fails with InvalidInput and returns  *)
(* no tag.  The size compared is the 4 bytes of the stream that follow     *)
(* the tag.                                                                *)
(***************************************************************************)
C4_SizeCrossValidation ==
    (status = "running" /\ FileDecoder_is_idle(decoder)) =>
        \A r \in {FileDecoder_finish(decoder)} :
            \A t \in {TagDecoder_finish(decoder.tag.inner)} :
                /\ t.err = "Ok"
                /\ BE(decoder.prev_tag_size) = BE(SubSeq(input, pos - 3, pos))
                /\ IF BE(SubSeq(input, pos - 3, pos)) = Tag_size(t.item)
                   THEN r.err = "Ok" /\ r.item = <<t.item>>
                   ELSE r.err = "InvalidInput" /\ r.item = <<>>

C4_Witness ==
    /\ source.defect \in {"trailing_plus", "trailing_minus"}
    /\ last = [op |-> "finish", err |-> "InvalidInput"]
    /\ status = "running"
    /\ tags = <<>>
    /\ pos = FirstTag - 1 + Tag_size(source.orig[1]) + 4

(***************************************************************************)
(* C5.  File-start invariant: the decode call that completes the 4-byte    *)
(* size after the file header fails with InvalidInput when the size is     *)
(* not 0, and leaves a decoder that hands out no tag; on a well-formed     *)
(* file whose end is not in sight that call succeeds.                      *)
(***************************************************************************)
C5_FirstSizeMustBeZero ==
    (/\ status = "running" /\ phase = "decode"
     /\ source.defect \notin {"bad_signature", "bad_version", "offset_8", "offset_10"}
     /\ pos < HEADER_SIZE + 4
     /\ avail >= HEADER_SIZE + 4) =>
        \A r \in {FileDecoder_decode(decoder, Buffer, eos)} :
            IF BE(SubSeq(input, HEADER_SIZE + 1, HEADER_SIZE + 4)) # 0
            THEN /\ r.err = "InvalidInput"
                 /\ ~FileDecoder_is_idle(r.d)
                 /\ FileDecoder_finish(r.d).item = <<>>
            ELSE (WellFormed /\ ~eos) => r.err = "Ok" /\ Peekable_is_idle(r.d.header)

C5_Witness ==
    /\ source.defect = "first_prev_nonzero"
    /\ last = [op |-> "decode", err |-> "InvalidInput"]
    /\ status = "failed"
    /\ avail >= HEADER_SIZE + 4
    /\ tags = <<>>

(***************************************************************************)
(* C6.  Exact bounded consumption: once the header of a tag is known, the  *)
(* tag decoder has consumed 11 + data_size bytes less the bytes the        *)
(* payload is still owed, never more than 11 + data_size; when the tag is  *)
(* complete it has consumed exactly 11 + data_size, and the data of the    *)
(* tag are the bytes of the stream from the end of the payload's           *)
(* sub-fields to the end of the declared size, data_size less the          *)
(* sub-field bytes in number.  Before the header is known the bytes        *)
(* consumed are those of the header fields read.                           *)
(***************************************************************************)
C6_ExactBoundedConsumption ==
    (status = "running" /\ Peekable_is_idle(decoder.header)) =>
        IF Peekable_is_idle(decoder.tag.inner.header)
        THEN \A consumed \in {pos - TagStart - Len(decoder.prev_tag_size)} :
                /\ decoder.tag.inner.data.remaining_bytes >= 0
                /\ consumed = TAG_HEADER_SIZE + PeekedHeader.data_size
                                  - decoder.tag.inner.data.remaining_bytes
                /\ TagDecoder_is_idle(decoder.tag.inner) =>
                      /\ consumed = TAG_HEADER_SIZE + PeekedHeader.data_size
                      /\ \A t \in {TagDecoder_finish(decoder.tag.inner)} :
                            /\ t.err = "Ok"
                            /\ Len(t.item.data) = PeekedHeader.data_size - SubFieldBytes(t.item)
                            /\ t.item.data =
                                  SubSeq(input,
                                         TagStart + TAG_HEADER_SIZE + SubFieldBytes(t.item) + 1,
                                         TagStart + TAG_HEADER_SIZE + PeekedHeader.data_size)
        ELSE pos - TagStart = TagHeaderDecoder_consumed(decoder.tag.inner.header.inner)

C6_Witness ==
    /\ source.defect = "data_size_plus"
    /\ source.orig[1].kind = "Video" /\ source.orig[1].avc_packet_type # <<>>
    /\ status = "running"
    /\ TagDecoder_is_idle(decoder.tag.inner)
    /\ pos = TagStart + TAG_HEADER_SIZE + PeekedHeader.data_size
    /\ Len(TagDecoder_finish(decoder.tag.inner).item.data) = PeekedHeader.data_size - 5

(***************************************************************************)
(* C7.  Audio conditional field: an audio tag the decoder returns has an   *)
(* AAC packet type exactly when its sound format is Aac, and the decoder   *)
(* has read the packet-type byte from the stream exactly in that case:     *)
(* the byte after the audio header byte is the packet type of an AAC tag   *)
(* and the first byte of the data of any other.                            *)
(***************************************************************************)
C7_AudioConditionalField ==
    /\ \A i \in 1 .. Len(tags) :
          tags[i].kind = "Audio" =>
              (tags[i].aac_packet_type # <<>> <=> tags[i].sound_format = Aac)
    /\ (/\ status = "running"
        /\ decoder.tag.inner.data.inner.variant = "Audio"
        /\ TagDecoder_is_idle(decoder.tag.inner)) =>
          \A t \in {TagDecoder_finish(decoder.tag.inner)} :
              t.err = "Ok" =>
                  /\ t.item.aac_packet_type # <<>> <=> t.item.sound_format = Aac
                  /\ Len(decoder.tag.inner.data.inner.d.aac_packet_type)
                        = Len(t.item.aac_packet_type)
                  /\ t.item.aac_packet_type \o t.item.data =
                        SubSeq(input, TagStart + TAG_HEADER_SIZE + 2,
                               TagStart + TAG_HEADER_SIZE + PeekedHeader.data_size)

C7_Witness ==
    /\ Len(tags) = 2
    /\ tags[1].kind = "Audio" /\ tags[1].sound_format = Aac /\ tags[1].aac_packet_type = <<1>>
    /\ tags[2].kind = "Audio" /\ tags[2].sound_format # Aac /\ tags[2].aac_packet_type = <<>>
    /\ tags[2].data # <<>>

(***************************************************************************)
(* C8.  Video conditional fields: a video tag the decoder returns has      *)
(* both the AVC packet type and the composition time when its codec is     *)
(* Avc and its frame type is not VideoInfoOrCommandFrame, and neither      *)
(* otherwise.                                                              *)
(***************************************************************************)
VideoLaw(t) ==
    IF t.codec_id = Avc /\ t.frame_type # VideoInfoOrCommandFrame
    THEN t.avc_packet_type # <<>> /\ t.composition_time # <<>>
    ELSE t.avc_packet_type = <<>> /\ t.composition_time = <<>>

C8_VideoConditionalFields ==
    /\ \A i \in 1 .. Len(tags) : tags[i].kind = "Video" => VideoLaw(tags[i])
    /\ (/\ decoder.tag.inner.data.inner.variant = "Video"
        /\ TagDecoder_is_idle(decoder.tag.inner)) =>
          \A t \in {TagDecoder_finish(decoder.tag.inner)} :
              t.err = "Ok" => VideoLaw(t.item)

C8_Witness ==
    /\ Len(tags) = 2
    /\ tags[1].kind = "Video" /\ tags[1].codec_id = Avc
    /\ tags[1].avc_packet_type # <<>> /\ tags[1].composition_time = <<-2>>
    /\ tags[2].kind = "Video" /\ tags[2].codec_id = Avc
    /\ tags[2].frame_type = VideoInfoOrCommandFrame
    /\ tags[2].avc_packet_type = <<>> /\ tags[2].composition_time = <<>>

(***************************************************************************)
(* C9.  End of stream in decode.  With the framing intact, a decode call   *)
(* that is told the stream has ended succeeds when the item in progress    *)
(* is complete or can be completed from the buffer, and when the stream    *)
(* ends exactly where the next tag would begin; it fails with              *)
(* UnexpectedEos in every other case, that is when the file header, a tag  *)
(* or the size after a tag is begun or owed and the stream ends before its *)
(* end.  At a tag boundary with nothing left it consumes no byte and       *)
(* leaves a decoder that hands out no tag.                                 *)
(***************************************************************************)
\* The stream delivered so far reaches the end of the item in progress.
ItemCompletable ==
    /\ avail >= TagStart + 4
    /\ avail >= TagStart + TAG_HEADER_SIZE + BE(SubSeq(input, TagStart + 2, TagStart + 4)) + 4

\* The stream delivered so far ends where the next tag would begin.
AtTagBoundary == avail = TagStart

C9_EndOfStream ==
    (/\ status = "running" /\ phase = "decode"
     /\ source.defect \in {"none", "trailing_plus", "trailing_minus"}) =>
        \A r \in {FileDecoder_decode(decoder, Buffer, TRUE)} :
            /\ r.err \in {"Ok", "UnexpectedEos"}
            /\ r.err = "Ok" <=>
                  FileDecoder_is_idle(decoder) \/ ItemCompletable \/ AtTagBoundary
            /\ (FileDecoder_is_idle(decoder) \/ (AtTagBoundary /\ pos = avail)) =>
                  r.n = 0 /\ r.d = decoder
            /\ (AtTagBoundary /\ r.err = "Ok") =>
                  /\ pos + r.n = avail
                  /\ ~FileDecoder_is_idle(r.d)
                  /\ FileDecoder_finish(r.d).item = <<>>

C9_Witness ==
    /\ WellFormed
    /\ eos
    /\ last = [op |-> "decode", err |-> "Ok"]
    /\ status = "running"
    /\ Len(tags) = MaxTags
    /\ pos = Len(input) /\ avail = pos /\ base = pos
    /\ decoder.prev_tag_size = <<>>
    /\ ~decoder.tag.started

\* The same with the stream ending inside an item.
C9_WitnessFail ==
    /\ WellFormed
    /\ eos
    /\ last = [op |-> "decode", err |-> "UnexpectedEos"]
    /\ Len(tags) = 1
    /\ avail > base + TAG_HEADER_SIZE

(***************************************************************************)
(* C10.  finish_decoding while not idle: FileDecoder's fails and returns   *)
(* no tag whenever FileDecoder is not idle, and TagDecoder's fails         *)
(* whenever TagDecoder is not idle.                                        *)
(***************************************************************************)
C10_FinishWhileNotIdleFails ==
    /\ ~FileDecoder_is_idle(decoder) =>
          \A r \in {FileDecoder_finish(decoder)} : r.err # "Ok" /\ r.item = <<>>
    /\ ~TagDecoder_is_idle(decoder.tag.inner) =>
          \A t \in {TagDecoder_finish(decoder.tag.inner)} : t.err # "Ok" /\ t.item = <<>>

C10_Witness ==
    /\ last = [op |-> "finish", err |-> "IncompleteDecoding"]
    /\ status = "failed"
    /\ TagDecoder_is_idle(decoder.tag.inner) = FALSE
    /\ Len(tags) = 1
    /\ pos > base + TAG_HEADER_SIZE

(***************************************************************************)
(* C11.  FileDecoder::is_idle is true exactly when the bytes consumed so   *)
(* far end with one whole tag, its 11-byte header and the data_size        *)
(* payload bytes the header declares, and the 4-byte size field after it,  *)
(* and finish_decoding has not been called since.  It is false on a new    *)
(* decoder, while the file header is being read, anywhere inside a tag or  *)
(* the size field, and right after finish_decoding.                        *)
(***************************************************************************)
\* Offset of the end of the item that begins at TagStart: the tag header,
\* the payload of the declared size and the size field.
ItemEnd ==
    TagStart + TAG_HEADER_SIZE + BE(SubSeq(input, TagStart + 2, TagStart + 4)) + 4

C11_IdleExactlyAfterWholeTag ==
    /\ FileDecoder_is_idle(decoder) <=> (Len(input) >= TagStart + 4 /\ pos = ItemEnd)
    /\ last.op \in {"new", "finish"} => ~FileDecoder_is_idle(decoder)
    /\ ~Peekable_is_idle(decoder.header) => ~FileDecoder_is_idle(decoder)
    /\ (Len(input) >= TagStart + 4 /\ pos < ItemEnd) => ~FileDecoder_is_idle(decoder)

\* The second tag of a file and its size field are consumed and not yet
\* handed out.
C11_Witness ==
    /\ FileDecoder_is_idle(decoder)
    /\ Len(tags) = 1
    /\ pos = ItemEnd
    /\ base > 0

(***************************************************************************)
(* C12.  FileDecoder::header returns None until the decode of the header   *)
(* field of the decoder (the 9 fixed bytes, the padding and the size field *)
(* after them) has produced its value; it returns the Header those bytes   *)
(* describe from the decode call that is handed the last of them on, also  *)
(* while no tag is complete, and every later decode and finish_decoding    *)
(* call leaves that Header in place.                                       *)
(***************************************************************************)
\* Offset after the file header, its padding and the size field after it.
HeaderEnd == BE(SubSeq(input, 6, 9)) + 4

\* The signature, the version and the data offset of the input are valid.
HeaderValid ==
    /\ Take(input, 3) = SIGNATURE
    /\ input[4] = VERSION
    /\ BE(SubSeq(input, 6, 9)) >= HEADER_SIZE

\* The Header the flags byte of the input describes.
InputHeader ==
    [has_audio |-> (input[5] \div 4) % 2 = 1, has_video |-> input[5] % 2 = 1]

HeaderKnown == FileDecoder_header(decoder) # <<>>

C12_HeaderState ==
    /\ FileDecoder_header(decoder) \in {<<>>, <<InputHeader>>}
    /\ HeaderKnown => HeaderValid /\ avail >= HeaderEnd
    /\ pos >= HeaderEnd => HeaderKnown
    /\ (last.op = "decode" /\ status = "failed" /\ HeaderValid /\ avail >= HeaderEnd)
            => HeaderKnown
    /\ tags # <<>> => HeaderKnown

C12_HeaderAccessor ==
    [][/\ C12_HeaderState
       /\ C12_HeaderState'
       /\ HeaderKnown => FileDecoder_header(decoder') = FileDecoder_header(decoder)]_vars

\* The header is known while the first tag has not been started.
C12_Witness ==
    /\ HeaderKnown
    /\ tags = <<>>
    /\ pos = HeaderEnd
    /\ pos < Len(input)
    /\ ~FileDecoder_is_idle(decoder)

\* The header is still known after two tags were handed out.
C12_WitnessLater == HeaderKnown /\ Len(tags) = 2 /\ last.op = "finish"

(***************************************************************************)
(* C13.  A file whose first three bytes are not "FLV", or whose version    *)
(* byte is not 1, never gets past its header: the decoder is never idle,   *)
(* no tag is returned, header() stays None and the tag decoder is never    *)
(* given a byte; every decode call that is shown the end of the header     *)
(* part fails with InvalidInput, a decode call at the end of a shorter     *)
(* stream fails too, and finish_decoding fails.                            *)
(***************************************************************************)
BadSignatureOrVersion == Take(input, 3) # SIGNATURE \/ input[4] # VERSION

C13_BadSignatureOrVersion ==
    BadSignatureOrVersion =>
        /\ ~FileDecoder_is_idle(decoder)
        /\ tags = <<>>
        /\ ~HeaderKnown
        /\ decoder.tag = FileDecoder_new.tag
        /\ pos < HeaderEnd
        /\ last.op = "finish" => last.err # "Ok"
        /\ (status = "running" /\ (pos < avail \/ eos)) =>
               \A r \in {FileDecoder_decode(decoder, Buffer, eos)} :
                   /\ avail >= HeaderEnd => r.err = "InvalidInput"
                   /\ eos => r.err # "Ok"
                   /\ ~FileDecoder_is_idle(r.d)
                   /\ FileDecoder_header(r.d) = <<>>

\* A decode call has failed on the whole header part of such a file.
C13_Witness ==
    /\ BadSignatureOrVersion
    /\ last = [op |-> "decode", err |-> "InvalidInput"]
    /\ status = "failed"
    /\ avail >= HeaderEnd
    /\ pos > 0

(***************************************************************************)
(* Files with one field set to each of its values.  The file the encoder   *)
(* writes for one tag has one byte replaced by each byte value, or its     *)
(* data offset set to each small value with that much padding put in.      *)
(* The same reader, decoder and encoder run on them.                       *)
(***************************************************************************)
MaxOffset == 12

PadBytes == {0, 70, 255}

Byte == 0 .. 255

\* Index of the flags byte of the file header.
FlagsAt == 5

\* Index of the first byte of the first tag's payload, and of the byte
\* after it.
PayloadAt == FirstTag + TAG_HEADER_SIZE

PacketTypeAt == PayloadAt + 1

ByteSources(ts, at) ==
    {[hdr |-> DefaultHeader, orig |-> ts, defect |-> "byte", at |-> at, byte |-> b] : b \in Byte}

OffsetSources ==
    {[hdr |-> DefaultHeader, orig |-> <<ScriptEmpty>>, defect |-> "offset", at |-> d, byte |-> b] :
        d \in 0 .. HEADER_SIZE, b \in {0}}
      \cup
    {[hdr |-> DefaultHeader, orig |-> <<ScriptEmpty>>, defect |-> "offset", at |-> d, byte |-> b] :
        d \in (HEADER_SIZE + 1) .. MaxOffset, b \in PadBytes}

CraftedSources ==
    ByteSources(<<ScriptEmpty>>, FlagsAt) \cup OffsetSources
        \cup ByteSources(<<VideoH263>>, FirstTag)
        \cup ByteSources(<<AudioAac>>, PayloadAt) \cup ByteSources(<<AudioAac>>, PacketTypeAt)
        \cup ByteSources(<<VideoAvcKey>>, PayloadAt) \cup ByteSources(<<VideoAvcKey>>, PacketTypeAt)

CraftedInput(src) ==
    LET bs == FileBytes(src.hdr, src.orig)
    IN  IF src.defect = "byte" THEN [bs EXCEPT ![src.at] = src.byte]
        ELSE Take(bs, HEADER_SIZE - 1) \o <<src.at>>
                \o [i \in 1 .. (IF src.at > HEADER_SIZE THEN src.at - HEADER_SIZE ELSE 0) |-> src.byte]
                \o Drop(bs, HEADER_SIZE)

InitCrafted ==
    /\ source \in CraftedSources
    /\ input = CraftedInput(source)
    /\ avail = 0
    /\ pos = 0
    /\ eos = FALSE
    /\ decoder = FileDecoder_new
    /\ tags = <<>>
    /\ status = "running"
    /\ last = [op |-> "new", err |-> "Ok"]
    /\ phase = "decode"
    /\ encoder = FileEncoder_new(source.hdr)
    /\ out = <<>>
    /\ base = 0

\* The reader of these runs hands over chunks of MaxChunk bytes or all
\* that is left.
NextCrafted ==
    \/ \E k \in {MaxChunk, Len(input) - avail} : Fill(k)
    \/ SignalEos
    \/ Decode
    \/ FinishDecoding
    \/ StartEncoding
    \/ \E room \in {MaxChunk, FileEncoder_exact_requiring_bytes(encoder)} : Encode(room)

SpecCrafted == InitCrafted /\ [][NextCrafted]_vars

(***************************************************************************)
(* C14.  For every flags byte of a header with a valid signature and       *)
(* version, the decoded Header has has_audio = bit 2 and has_video = bit 0 *)
(* of the byte, whatever the other six bits are; the nine bytes            *)
(* 46 4C 56 01 05 00 00 00 09 give Header{has_audio: true, has_video:      *)
(* true} and the header decoder is idle after exactly those nine bytes,    *)
(* with no padding byte consumed.                                          *)
(***************************************************************************)
C14_HeaderFlags ==
    /\ HeaderKnown => FileDecoder_header(decoder) = <<InputHeader>>
    /\ (HeaderValid /\ pos >= HeaderEnd) => HeaderKnown
    /\ (HeaderValid /\ HeaderEnd = HEADER_SIZE + 4) =>
          \A r \in {HeaderDecoder_decode(HeaderDecoder_new, Take(input, HEADER_SIZE), FALSE)} :
              /\ r.err = "Ok" /\ r.n = HEADER_SIZE
              /\ HeaderDecoder_is_idle(r.d)
              /\ HeaderDecoder_finish(r.d).err = "Ok"
              /\ HeaderDecoder_finish(r.d).item = InputHeader
              /\ Take(input, HEADER_SIZE) = <<70, 76, 86, 1, 5, 0, 0, 0, 9>> =>
                     HeaderDecoder_finish(r.d).item = [has_audio |-> TRUE, has_video |-> TRUE]

\* A header whose flags byte has bit 2 set, bit 0 clear and other bits set
\* has been decoded.
C14_Witness ==
    /\ HeaderKnown
    /\ input[FlagsAt] = 254
    /\ FileDecoder_header(decoder) = <<[has_audio |-> TRUE, has_video |-> FALSE]>>
    /\ pos >= HEADER_SIZE + 4
    /\ tags = <<>>

\* The header of the example has been decoded.
C14_WitnessExample ==
    /\ HeaderKnown
    /\ Take(input, HEADER_SIZE) = <<70, 76, 86, 1, 5, 0, 0, 0, 9>>
    /\ FileDecoder_header(decoder) = <<[has_audio |-> TRUE, has_video |-> TRUE]>>
    /\ pos >= HEADER_SIZE + 4
    /\ tags = <<>>

(***************************************************************************)
(* C15.  A declared data offset below 9 makes HeaderDecoder::decode fail   *)
(* with InvalidInput once the offset field is read.  For an offset of 9 or *)
(* more the header decoder consumes the 9 fixed bytes and offset - 9       *)
(* padding bytes of any content, no more, and is idle exactly from the     *)
(* last of them on: the header takes `offset` bytes in all, and the tag    *)
(* after the padding is decoded as written.                                *)
(***************************************************************************)
\* The data offset the input declares.
DataOffset == BE(SubSeq(input, 6, 9))

C15_DataOffset ==
    /\ avail = 0 =>
          \A n \in 0 .. Len(input) :
              \A r \in {HeaderDecoder_decode(HeaderDecoder_new, Take(input, n), FALSE)} :
                  IF n >= HEADER_SIZE /\ DataOffset < HEADER_SIZE
                  THEN r.err = "InvalidInput"
                  ELSE /\ r.err = "Ok"
                       /\ r.n = IF DataOffset < HEADER_SIZE THEN n ELSE Min(n, DataOffset)
                       /\ HeaderDecoder_is_idle(r.d) <=> (DataOffset >= HEADER_SIZE /\ n >= DataOffset)
    /\ (status = "running" /\ ~Peekable_is_idle(decoder.header)) =>
          /\ HeaderDecoder_is_idle(decoder.header.inner.h)
                <=> (DataOffset >= HEADER_SIZE /\ pos >= DataOffset)
          /\ (DataOffset < HEADER_SIZE /\ pos < HEADER_SIZE /\ avail >= HEADER_SIZE) =>
                 FileDecoder_decode(decoder, Buffer, eos).err = "InvalidInput"
    /\ DataOffset < HEADER_SIZE => pos < HEADER_SIZE /\ ~HeaderKnown /\ tags = <<>>
    /\ (source.defect = "offset" /\ tags # <<>>) => tags = source.orig

\* The header decoder is idle at the last of three padding bytes, the size
\* field after them not yet read.
C15_Witness ==
    /\ DataOffset = HEADER_SIZE + 3
    /\ pos = DataOffset
    /\ HeaderDecoder_is_idle(decoder.header.inner.h)
    /\ ~HeaderKnown
    /\ input[DataOffset] = 255

\* The tag after the padding has been handed out.
C15_WitnessTag == DataOffset = HEADER_SIZE + 2 /\ tags = source.orig /\ tags # <<>>

\* A decode call has failed on a data offset of 8.
C15_WitnessFail ==
    /\ DataOffset = HEADER_SIZE - 1
    /\ last = [op |-> "decode", err |-> "InvalidInput"]

(***************************************************************************)
(* C16.  For each of the four Header values HeaderEncoder writes exactly   *)
(* nine bytes: "FLV", the version 1, a flags byte 4 * has_audio +          *)
(* 1 * has_video with the other bits 0, and the data offset 9 as four      *)
(* big-endian bytes; HeaderDecoder reads those nine bytes back, all of     *)
(* them and no more, as the same Header.                                   *)
(***************************************************************************)
\* The nine bytes of a header, written out.
HeaderLayout(h) ==
    <<70, 76, 86, 1, (IF h.has_audio THEN 4 ELSE 0) + (IF h.has_video THEN 1 ELSE 0),
      0, 0, 0, 9>>

\* HeaderDecoder reads exactly the nine bytes `bs` as the Header h.
DecodesAs(bs, h) ==
    \A r \in {HeaderDecoder_decode(HeaderDecoder_new, bs, FALSE)} :
        /\ r.err = "Ok" /\ r.n = Len(bs)
        /\ HeaderDecoder_is_idle(r.d)
        /\ HeaderDecoder_finish(r.d).err = "Ok"
        /\ HeaderDecoder_finish(r.d).item = h

C16_HeaderEncoding ==
    /\ avail = 0 =>
          \A h \in Headers :
              /\ HeaderEncoder_bytes(h) = HeaderLayout(h)
              /\ DecodesAs(HeaderEncoder_bytes(h), h)
              /\ FileEncoder_encode(FileEncoder_new(h), HEADER_SIZE).bytes = HeaderLayout(h)
    /\ IsPrefix(Take(out, Min(Len(out), HEADER_SIZE)), HeaderLayout(source.hdr))
    /\ Len(out) >= HEADER_SIZE => DecodesAs(Take(out, HEADER_SIZE), source.hdr)
    /\ (WellFormed /\ HeaderKnown) => FileDecoder_header(decoder) = <<source.hdr>>

\* The encoder has written the header of a file with video and no audio,
\* and the decoder has read it.
C16_Witness ==
    /\ source.hdr = [has_audio |-> FALSE, has_video |-> TRUE]
    /\ Len(out) >= HEADER_SIZE
    /\ Take(out, HEADER_SIZE) = <<70, 76, 86, 1, 1, 0, 0, 0, 9>>
    /\ FileDecoder_header(decoder) = <<source.hdr>>

(***************************************************************************)
(* C17.  Whatever tags are started on a FileEncoder, what it has written   *)
(* and still has to write is the 9-byte header, four zero bytes, and then  *)
(* for each tag in the order started the tag's bytes and its tag_size as   *)
(* four big-endian bytes.  The header and the zero field are written once, *)
(* before any byte of a tag, and are not pending again for later tags.     *)
(***************************************************************************)
\* The number of tags start_encoding was called with.
Started == IF phase = "start" THEN Len(tags) - 1 ELSE Len(tags)

\* The file for the tags started so far.
StartedFile ==
    HeaderLayout(source.hdr) \o <<0, 0, 0, 0>> \o TagsBytes(Take(tags, Started))

C17_FileEncoderLayout ==
    /\ out \o FileEncoder_encode(encoder, FileEncoder_exact_requiring_bytes(encoder)).bytes
           = StartedFile
    /\ IsPrefix(out, StartedFile)
    /\ FileEncoder_is_idle(encoder) => out = StartedFile
    /\ Len(out) >= HEADER_SIZE + 4 => encoder.header = <<>>
    /\ Len(out) < HEADER_SIZE + 4 => Len(out) + Len(encoder.header) = HEADER_SIZE + 4
    /\ (Started >= 2 /\ phase = "encode") =>
           FileEncoder_exact_requiring_bytes(encoder) <= Tag_size(tags[Started]) + 4

\* Two tags were started and written out.
C17_Witness ==
    /\ Started = 2
    /\ FileEncoder_is_idle(encoder)
    /\ out = StartedFile
    /\ Len(out) = HEADER_SIZE + 4 + Tag_size(tags[1]) + 4 + Tag_size(tags[2]) + 4

(***************************************************************************)
(* C18.  FileEncoder::is_idle is true exactly when every byte of the file  *)
(* header, the zero field, the started tags and their size fields has been *)
(* written, and requiring_bytes is always the number of bytes still to be  *)
(* written: 13 + tag_size + 4 right after the first start_encoding,        *)
(* tag_size + 4 right after a later one, 0 when idle, and less by the      *)
(* count each encode call returns.                                         *)
(***************************************************************************)
\* tag_size + 4 summed over a sequence of tags.
RECURSIVE SizeSum(_)
SizeSum(ts) == IF ts = <<>> THEN 0 ELSE Tag_size(Head(ts)) + 4 + SizeSum(Tail(ts))

\* Length of the file for the tags started so far.
StartedLen == HEADER_SIZE + 4 + SizeSum(Take(tags, Started))

C18_EncoderIdleAndRequiringBytes ==
    /\ FileEncoder_exact_requiring_bytes(encoder) = StartedLen - Len(out)
    /\ FileEncoder_is_idle(encoder) <=> Len(out) = StartedLen
    /\ FileEncoder_is_idle(encoder) => FileEncoder_exact_requiring_bytes(encoder) = 0
    /\ (phase = "encode" /\ Started = 1 /\ out = <<>>) =>
           FileEncoder_exact_requiring_bytes(encoder) = 13 + Tag_size(tags[1]) + 4
    /\ (phase = "encode" /\ Started >= 2
            /\ Len(out) = HEADER_SIZE + 4 + SizeSum(Take(tags, Started - 1))) =>
           FileEncoder_exact_requiring_bytes(encoder) = Tag_size(tags[Started]) + 4
    /\ \A room \in 0 .. MaxChunk :
           \A r \in {FileEncoder_encode(encoder, room)} :
               /\ FileEncoder_exact_requiring_bytes(r.d)
                      = FileEncoder_exact_requiring_bytes(encoder) - Len(r.bytes)
               /\ Len(r.bytes) = Min(room, FileEncoder_exact_requiring_bytes(encoder))

\* A second tag has just been started: its bytes and size field are owed.
C18_Witness ==
    /\ phase = "encode"
    /\ Started = 2
    /\ ~FileEncoder_is_idle(encoder)
    /\ FileEncoder_exact_requiring_bytes(encoder) = Tag_size(tags[2]) + 4
    /\ Len(out) = HEADER_SIZE + 4 + Tag_size(tags[1]) + 4

\* The first tag has just been started: the header part is owed too.
C18_WitnessFirst ==
    /\ phase = "encode"
    /\ Started = 1
    /\ out = <<>>
    /\ FileEncoder_exact_requiring_bytes(encoder) = 13 + Tag_size(tags[1]) + 4

(***************************************************************************)
(* C19.  The tag-type byte selects the payload decoder and the variant of  *)
(* the tag: 8 gives Tag::Audio, 9 Tag::Video and 18 Tag::ScriptData.  With *)
(* any other byte the decode call that is handed the end of the tag header *)
(* fails with InvalidInput and no tag is returned.  The variant of every   *)
(* tag returned is the one its tag-type byte names.                        *)
(***************************************************************************)
\* The variant a tag-type byte names.
KindOf(b) ==
    CASE b = 8 -> "Audio"
      [] b = 9 -> "Video"
      [] b = 18 -> "ScriptData"
      [] OTHER -> "none"

C19_TagTypeDispatch ==
    /\ Peekable_is_idle(decoder.tag.inner.header) =>
           /\ KindOf(input[TagStart + 1]) # "none"
           /\ decoder.tag.inner.data.inner.variant = KindOf(input[TagStart + 1])
    /\ FileDecoder_is_idle(decoder) =>
           \A f \in {FileDecoder_finish(decoder)} :
               f.err = "Ok" => f.item[1].kind = KindOf(input[TagStart + 1])
    /\ (/\ status = "running" /\ phase = "decode"
        /\ Peekable_is_idle(decoder.header)
        /\ ~Peekable_is_idle(decoder.tag.inner.header)
        /\ pos >= TagStart
        /\ avail >= TagStart + TAG_HEADER_SIZE) =>
           \A r \in {FileDecoder_decode(decoder, Buffer, eos)} :
               IF KindOf(input[TagStart + 1]) = "none"
               THEN /\ r.err = "InvalidInput"
                    /\ ~FileDecoder_is_idle(r.d)
                    /\ FileDecoder_finish(r.d).item = <<>>
               ELSE r.err = "Ok" =>
                        r.d.tag.inner.data.inner.variant = KindOf(input[TagStart + 1])
    /\ (HeaderKnown /\ base = 0 /\ Len(input) > HeaderEnd
            /\ KindOf(input[HeaderEnd + 1]) = "none") =>
           tags = <<>> /\ ~FileDecoder_is_idle(decoder)

\* A tag written as video whose type byte was set to 8 came out as audio.
C19_Witness ==
    /\ Len(tags) = 1
    /\ source.orig[1].kind = "Video"
    /\ input[FirstTag] = 8
    /\ tags[1].kind = "Audio"
    /\ last = [op |-> "finish", err |-> "Ok"]

\* A decode call failed on a tag header with type byte 10.
C19_WitnessFail ==
    /\ HeaderKnown
    /\ input[FirstTag] = 10
    /\ last = [op |-> "decode", err |-> "InvalidInput"]
    /\ avail >= FirstTag + TAG_HEADER_SIZE - 1

(***************************************************************************)
(* C20.  Each enumeration decoder accepts exactly its codes and fails with *)
(* InvalidInput on every other: SoundFormat 0..8, 10, 11, 14, 15;          *)
(* SoundRate 0..3; AacPacketType 0, 1; FrameType 1..5; CodecId 1..7;       *)
(* AvcPacketType 0, 1, 2.  So an audio payload fails for a format nibble   *)
(* 9, 12 or 13 and for an AAC packet-type byte above 1, and a video        *)
(* payload fails for a frame-type nibble 0 or above 5, a codec nibble 0 or *)
(* above 7, and an AVC packet-type byte above 2, with InvalidInput unless  *)
(* the stream ends inside the payload (then with the error of the early    *)
(* end); every other payload is returned with the codes its bytes carry.   *)
(***************************************************************************)
\* from_u8 accepts exactly the codes and returns the code it is given.
Accepts(r, b, codes) ==
    /\ r.err = (IF b \in codes THEN "Ok" ELSE "InvalidInput")
    /\ r.err = "Ok" => r.v = b

\* The first payload byte of the first tag, and the byte after it.
PayloadByte == input[PayloadAt]

NextByte == input[PacketTypeAt]

\* The first tag is audio and its payload carries a code outside an
\* enumeration.
AudioBad ==
    /\ input[FirstTag] = 8
    /\ \/ PayloadByte \div 16 \in {9, 12, 13}
       \/ PayloadByte \div 16 = 10 /\ NextByte > 1

\* The first tag is video and its first payload byte carries a frame type
\* or a codec outside the enumerations.
VideoBadFirst ==
    /\ input[FirstTag] = 9
    /\ \/ PayloadByte \div 16 \notin 1 .. 5
       \/ PayloadByte % 16 \notin 1 .. 7

\* The first tag is video with an AVC packet type outside the enumeration.
VideoBadPacket ==
    /\ input[FirstTag] = 9
    /\ ~VideoBadFirst
    /\ PayloadByte % 16 = 7 /\ PayloadByte \div 16 # 5
    /\ NextByte > 2

\* What finish_decoding must return for the first tag of a file that has a
\* byte replaced in its payload.
FirstTagAsRead(t) ==
    CASE input[FirstTag] = 8 ->
            /\ t.kind = "Audio"
            /\ t.sound_format = PayloadByte \div 16
            /\ t.sound_rate = (PayloadByte \div 4) % 4
            /\ t.aac_packet_type = (IF PayloadByte \div 16 = 10 THEN <<NextByte>> ELSE <<>>)
      [] input[FirstTag] = 9 ->
            /\ t.kind = "Video"
            /\ t.frame_type = PayloadByte \div 16
            /\ t.codec_id = PayloadByte % 16
            /\ t.avc_packet_type
                   = (IF PayloadByte % 16 = 7 /\ PayloadByte \div 16 # 5 THEN <<NextByte>> ELSE <<>>)
      [] OTHER -> t.kind = "ScriptData"

C20_ClosedEnumerations ==
    /\ avail = 0 =>
          \A b \in Byte :
              /\ Accepts(SoundFormat_from_u8(b), b, (0 .. 8) \cup {10, 11, 14, 15})
              /\ Accepts(SoundRate_from_u8(b), b, 0 .. 3)
              /\ Accepts(AacPacketType_from_u8(b), b, {0, 1})
              /\ Accepts(FrameType_from_u8(b), b, 1 .. 5)
              /\ Accepts(CodecId_from_u8(b), b, 1 .. 7)
              /\ Accepts(AvcPacketType_from_u8(b), b, {0, 1, 2})
    /\ (source.defect = "byte" /\ source.at \in {PayloadAt, PacketTypeAt}) =>
          /\ (AudioBad \/ VideoBadFirst \/ VideoBadPacket) => tags = <<>>
          /\ VideoBadFirst => ~FileDecoder_is_idle(decoder)
          /\ (VideoBadFirst /\ status = "failed" /\ last.op = "decode"
                  /\ avail >= PayloadAt /\ (~eos \/ avail = Len(input))) =>
                 last.err = "InvalidInput"
          /\ (VideoBadFirst /\ status = "running" /\ phase = "decode"
                  /\ pos < PayloadAt /\ avail >= PayloadAt) =>
                 \A r \in {FileDecoder_decode(decoder, Buffer, eos)} :
                     /\ r.err # "Ok"
                     /\ (~eos \/ avail = Len(input)) => r.err = "InvalidInput"
          /\ (FileDecoder_is_idle(decoder) /\ base = 0) =>
                 \A f \in {FileDecoder_finish(decoder)} :
                     IF AudioBad \/ VideoBadPacket
                     THEN f.err = "InvalidInput" /\ f.item = <<>>
                     ELSE f.err = "Ok" /\ FirstTagAsRead(f.item[1])

\* finish_decoding has failed on an audio tag with the format nibble 9.
C20_Witness ==
    /\ input[FirstTag] = 8
    /\ PayloadByte \div 16 = 9
    /\ last = [op |-> "finish", err |-> "InvalidInput"]
    /\ tags = <<>>

\* decode has failed on a video tag with the codec nibble 8.
C20_WitnessCodec ==
    /\ input[FirstTag] = 9
    /\ PayloadByte = 16 + 8
    /\ last = [op |-> "decode", err |-> "InvalidInput"]

\* finish_decoding has failed on an AVC packet type of 3, and on an AAC
\* packet type of 2.
C20_WitnessAvc == VideoBadPacket /\ NextByte = 3 /\ last = [op |-> "finish", err |-> "InvalidInput"]

C20_WitnessAac ==
    /\ AudioBad /\ PayloadByte \div 16 = 10 /\ NextByte = 2
    /\ last = [op |-> "finish", err |-> "InvalidInput"]

\* An audio tag with the format nibble 15 has been returned.
C20_WitnessOk == tags # <<>> /\ input[FirstTag] = 8 /\ PayloadByte \div 16 = 15

(***************************************************************************)
(* Validated values (stream.rs, time.rs).  A Result is the error kind and  *)
(* the value, if any.                                                      *)
(***************************************************************************)
Fails(kind) == [err |-> kind, value |-> <<>>]

Returns(v) == [err |-> "Ok", value |-> <<v>>]

\* StreamId::new: track_assert!(id <= 0xFF_FFFF, InvalidInput); value() is
\* the field.
StreamId_new(id) == IF id <= Pow24 - 1 THEN Returns(id) ELSE Fails("InvalidInput")

\* Fault: the offset is compared after a shift by 7, a 25-bit range.
TimeOffset_new_25_bits(offset) ==
    IF Sar32(Shl32(offset, 7), 7) = offset THEN Returns(offset) ELSE Fails("InvalidInput")

\* TimeOffset::new: track_assert_eq!((offset << 8) >> 8, offset, InvalidInput).
TimeOffset_new(offset) ==
    IF Sar32(Shl32(offset, 8), 8) = offset THEN Returns(offset) ELSE Fails("InvalidInput")

(***************************************************************************)
(* u64 values are four 16-bit limbs, the most significant first: the       *)
(* products and sums of Timestamp::from_duration go beyond one machine     *)
(* word of the checker.                                                    *)
(***************************************************************************)
Limb == 65536

\* `n as u64` for 0 <= n < 2^31.
U64_from(n) == <<0, 0, n \div Limb, n % Limb>>

\* a * m on u64 for a small m: the wrapped product and whether it overflowed.
U64_mul(a, m) ==
    LET p4 == a[4] * m
        p3 == a[3] * m + p4 \div Limb
        p2 == a[2] * m + p3 \div Limb
        p1 == a[1] * m + p2 \div Limb
    IN  [value |-> <<p1 % Limb, p2 % Limb, p3 % Limb, p4 % Limb>>, overflow |-> p1 \div Limb # 0]

\* a + n on u64 for a small n, likewise.
U64_add(a, n) ==
    LET s4 == a[4] + n
        s3 == a[3] + s4 \div Limb
        s2 == a[2] + s3 \div Limb
        s1 == a[1] + s2 \div Limb
    IN  [value |-> <<s1 % Limb, s2 % Limb, s3 % Limb, s4 % Limb>>, overflow |-> s1 \div Limb # 0]

\* a / m and a % m on u64 for a small m.
U64_divmod(a, m) ==
    LET r1 == a[1] % m
        n2 == r1 * Limb + a[2]
        n3 == (n2 % m) * Limb + a[3]
        n4 == (n3 % m) * Limb + a[4]
    IN  [quot |-> <<a[1] \div m, n2 \div m, n3 \div m, n4 \div m>>, rem |-> n4 % m]

\* std::time::Duration: whole seconds (u64) and nanoseconds below 10^9.
Duration_from_millis(ms) ==
    LET q == U64_divmod(ms, 1000)
    IN  [secs |-> q.quot, nanos |-> q.rem * 1000000]

\* Timestamp::to_duration.
Timestamp_to_duration(t) == IF t >= 0 THEN <<Duration_from_millis(U64_from(t))>> ELSE <<>>

\* Timestamp::from_duration.  `as_secs() * 1000 + subsec_millis` is u64
\* arithmetic: with overflow checks (a debug build) an overflow panics,
\* without them (a release build) the value wraps.
Timestamp_from_duration(duration, overflow_checks) ==
    LET subsec_millis == duration.nanos \div 1000000
        product == U64_mul(duration.secs, 1000)
        milliseconds == U64_add(product.value, subsec_millis)
        ms == milliseconds.value
        \* milliseconds <= std::i32::MAX as u64
        fits == ms[1] = 0 /\ ms[2] = 0 /\ ms[3] < Limb \div 2
    IN  IF overflow_checks /\ (product.overflow \/ milliseconds.overflow) THEN Fails("Panic")
        ELSE IF ~fits THEN Fails("InvalidInput")
        ELSE Returns(ms[3] * Limb + ms[4])

(***************************************************************************)
(* Calls with chosen arguments.  A caller builds one value and makes one   *)
(* call, or converts a timestamp to a duration and back; the file          *)
(* variables stay as constructed.  `source` is the call, `last` what it    *)
(* returned.                                                               *)
(***************************************************************************)
I32_MAX == 2147483647

InitValues ==
    /\ LET Call(fn, args) == {[fn |-> fn, arg |-> a] : a \in args}
           I32_MIN == -I32_MAX - 1
           EdgeBytes == {0, 1, 127, 128, 255}
           U24Edges == {BE(<<a, b, c>>) : a, b, c \in EdgeBytes}
           StreamIdArgs == {0, 1, Pow24 - 2, Pow24 - 1, Pow24, Pow24 + 1, I32_MAX}
           TimeOffsetArgs ==
               {0, 123, -12, -1, 255, 256, -256, -257, Pow23 - 2, Pow23 - 1, Pow23,
                Pow23 + 1, -Pow23 + 1, -Pow23, -Pow23 - 1, -Pow23 - 2, Pow24 - 1, Pow24,
                Pow24 + 1, -Pow24, -Pow24 - 1, 2 * Pow24, I32_MAX, I32_MAX - 1, I32_MIN,
                I32_MIN + 1}
           TimestampArgs ==
               {0, 1, 123, -123, -1, 999, 1000, 1001, 2147483000, I32_MAX - 1, I32_MAX, I32_MIN}
           \* Whole seconds: 0, 1, 2147483 and 2147484 (around i32::MAX ms),
           \* 0xFFFF_FFFF, 18446744073709551 and 18446744073709552 (around
           \* u64::MAX ms), and u64::MAX.
           SecsArgs ==
               {<<0, 0, 0, 0>>, <<0, 0, 0, 1>>, <<0, 0, 32, 50331>>, <<0, 0, 32, 50332>>,
                <<0, 0, 65535, 65535>>, <<65, 35127, 19398, 42991>>,
                <<65, 35127, 19398, 42992>>, <<65535, 65535, 65535, 65535>>}
           NanosArgs ==
               {0, 999999, 123000000, 615999999, 616000000, 647000000, 647999999,
                648000000, 999999999}
           DurationArgs == {[secs |-> sc, nanos |-> n] : sc \in SecsArgs, n \in NanosArgs}
       IN  \/ source \in Call("StreamId::new", StreamIdArgs)
           \/ source \in Call("TimeOffset::new", TimeOffsetArgs)
           \/ source \in Call("Timestamp::to_duration", TimestampArgs)
           \/ source \in Call("Timestamp::from_duration", DurationArgs)
           \/ source \in Call("TagHeaderDecoder", {<<l, e>> : l \in U24Edges, e \in Byte})
           \/ source \in Call("VideoTagDataDecoder", U24Edges)
    /\ input = <<>>
    /\ avail = 0
    /\ pos = 0
    /\ eos = FALSE
    /\ decoder = FileDecoder_new
    /\ tags = <<>>
    /\ status = "running"
    /\ last = [op |-> "new", err |-> "Ok"]
    /\ phase = "call"
    /\ encoder = FileEncoder_new(DefaultHeader)
    /\ out = <<>>
    /\ base = 0

\* The call returns r.
Return(r) ==
    /\ last' = [op |-> source.fn, err |-> r.err, value |-> r.value]
    /\ status' = "returned"
    /\ UNCHANGED <<source, input, avail, pos, eos, decoder, tags, phase, encoder, out, base>>

NewStreamId ==
    /\ status = "running" /\ source.fn = "StreamId::new"
    /\ Return(StreamId_new(source.arg))

NewTimeOffset ==
    /\ status = "running" /\ source.fn = "TimeOffset::new"
    /\ Return(TimeOffset_new(source.arg))

\* Timestamp::new(ms).to_duration(); the caller goes on with the duration.
ToDuration ==
    /\ status = "running" /\ phase = "call" /\ source.fn = "Timestamp::to_duration"
    /\ last' = [op |-> source.fn, err |-> "Ok", value |-> Timestamp_to_duration(source.arg)]
    /\ status' = IF source.arg >= 0 THEN "running" ELSE "returned"
    /\ phase' = "back"
    /\ UNCHANGED <<source, input, avail, pos, eos, decoder, tags, encoder, out, base>>

\* Timestamp::from_duration(d) in a build with or without overflow checks,
\* on a duration of the caller's or on the one to_duration returned.
FromDuration(overflow_checks) ==
    /\ status = "running"
    /\ \/ /\ source.fn = "Timestamp::from_duration"
          /\ \E r \in {Timestamp_from_duration(source.arg, overflow_checks)} :
                 last' = [op |-> "Timestamp::from_duration", err |-> r.err, value |-> r.value]
       \/ /\ source.fn = "Timestamp::to_duration" /\ phase = "back"
          /\ \E r \in {Timestamp_from_duration(last.value[1], overflow_checks)} :
                 last' = [op |-> "Timestamp::from_duration", err |-> r.err, value |-> r.value]
    /\ status' = "returned"
    /\ UNCHANGED <<source, input, avail, pos, eos, decoder, tags, phase, encoder, out, base>>

\* The eleven bytes of a script-data tag header with the timestamp field
\* l and the extended byte e.
TagHeaderBytes(l, e) ==
    <<TAG_TYPE_SCRIPT_DATA>> \o ToBE(0, 3) \o ToBE(l, 3) \o <<e>> \o ToBE(0, 3)

\* A TagHeaderDecoder is given the header bytes and finished.
DecodeTagHeader ==
    /\ status = "running" /\ source.fn = "TagHeaderDecoder"
    /\ \E r \in {TagHeaderDecoder_decode(TagHeaderDecoder_new,
                                         TagHeaderBytes(source.arg[1], source.arg[2]), FALSE)} :
           \E f \in {TagHeaderDecoder_finish(r.d)} :
               Return([err |-> f.err, value |-> <<f.item>>])

\* The payload of an AVC key frame (NAL unit) with the composition time
\* field raw and one byte of data.
VideoPayloadBytes(raw) == <<16 + Avc, 1>> \o ToBE(raw, 3) \o <<9>>

\* A VideoTagDataDecoder is given the payload up to the end of its stream
\* and finished.
DecodeVideoPayload ==
    /\ status = "running" /\ source.fn = "VideoTagDataDecoder"
    /\ \E r \in {VideoTagDataDecoder_decode(VideoTagDataDecoder_new,
                                            VideoPayloadBytes(source.arg), TRUE)} :
           \E f \in {VideoTagDataDecoder_finish(r.d)} :
               Return([err |-> f.err, value |-> <<f.item>>])

NextValues ==
    \/ NewStreamId
    \/ NewTimeOffset
    \/ ToDuration
    \/ \E overflow_checks \in BOOLEAN : FromDuration(overflow_checks)
    \/ DecodeTagHeader
    \/ DecodeVideoPayload

SpecValues == InitValues /\ [][NextValues]_vars

(***************************************************************************)
(* C21.  StreamId::new(id) succeeds exactly when id <= 0xFFFFFF, and       *)
(* TimeOffset::new(offset) exactly when -0x800000 <= offset <= 0x7FFFFF;   *)
(* on success value() is the argument, otherwise the result is an          *)
(* InvalidInput error.                                                     *)
(***************************************************************************)
Returned(fn) == status = "returned" /\ source.fn = fn /\ last.op = fn

C21_ValidatedConstruction ==
    /\ Returned("StreamId::new") =>
           IF source.arg <= 16777215
           THEN last.err = "Ok" /\ last.value = <<source.arg>>
           ELSE last.err = "InvalidInput" /\ last.value = <<>>
    /\ Returned("TimeOffset::new") =>
           IF -8388608 <= source.arg /\ source.arg <= 8388607
           THEN last.err = "Ok" /\ last.value = <<source.arg>>
           ELSE last.err = "InvalidInput" /\ last.value = <<>>

\* TimeOffset::new(-0x800000) has succeeded.
C21_Witness == Returned("TimeOffset::new") /\ source.arg = -8388608 /\ last.value = <<-8388608>>

\* StreamId::new(0x1000000) has failed.
C21_WitnessStreamId ==
    Returned("StreamId::new") /\ source.arg = 16777216 /\ last.err = "InvalidInput"

(***************************************************************************)
(* C22.  For every 24-bit timestamp field L and extended byte E of a tag   *)
(* header, the decoded timestamp is E * 2^24 + L read as a signed 32-bit   *)
(* value: it is negative exactly when E >= 128, and its low 24 bits are L  *)
(* whatever E is.                                                          *)
(***************************************************************************)
C22_TimestampReconstruction ==
    Returned("TagHeaderDecoder") =>
        LET l == source.arg[1]
            e == source.arg[2]
        IN  /\ last.err = "Ok"
            /\ \A t \in {last.value[1].timestamp} :
                   /\ t = (IF e >= 128 THEN e - 256 ELSE e) * 16777216 + l
                   /\ t < 0 <=> e >= 128
                   /\ t % 16777216 = l

\* The header with L = 0xFFFFFF and E = 0x80 has been decoded: the
\* timestamp is 0x80FFFFFF as i32.
C22_Witness ==
    /\ Returned("TagHeaderDecoder")
    /\ source.arg = <<16777215, 128>>
    /\ last.value[1].timestamp = -2130706433

(***************************************************************************)
(* C23.  For every 24-bit wire value raw, the decoded composition time is  *)
(* raw when raw < 2^23 and raw - 2^24 when raw >= 2^23; it lies in         *)
(* -2^23 .. 2^23 - 1 and TimeOffset::new accepts it.                       *)
(***************************************************************************)
C23_CompositionTimeSignExtension ==
    Returned("VideoTagDataDecoder") =>
        LET raw == source.arg
        IN  /\ last.err = "Ok"
            /\ \A ct \in {last.value[1].composition_time} :
                   /\ ct = <<IF raw < 8388608 THEN raw ELSE raw - 16777216>>
                   /\ -8388608 <= ct[1] /\ ct[1] <= 8388607
                   /\ TimeOffset_new(ct[1]) = Returns(ct[1])

\* The payload with the composition time field 80 00 00 has been decoded
\* as -2^23.
C23_Witness ==
    /\ Returned("VideoTagDataDecoder")
    /\ source.arg = 8388608
    /\ last.value[1].composition_time = <<-8388608>>

(***************************************************************************)
(* C24.  Timestamp::from_duration returns an InvalidInput error for every  *)
(* Duration of more than i32::MAX milliseconds (seconds * 1000 plus the    *)
(* sub-second milliseconds), however large, and Timestamp(ms) for every    *)
(* other; from_duration(to_duration(t)) = t for every t >= 0; and          *)
(* to_duration is None exactly for negative values.                        *)
(***************************************************************************)
\* seconds * 1000 + sub-second milliseconds > 2147483647, decided on the
\* seconds (2147483 is 32 * 65536 + 50331) without forming the product.
TooLong(d) ==
    LET sc == d.secs
    IN  \/ sc[1] # 0 \/ sc[2] # 0
        \/ sc[3] > 32
        \/ sc[3] = 32 /\ sc[4] > 50331
        \/ sc[3] = 32 /\ sc[4] = 50331 /\ d.nanos \div 1000000 > 647

\* The length in milliseconds of a duration that is not too long.
Millis(d) == (d.secs[3] * 65536 + d.secs[4]) * 1000 + d.nanos \div 1000000

C24_FromDuration ==
    /\ (status = "returned" /\ source.fn = "Timestamp::from_duration") =>
           IF TooLong(source.arg)
           THEN last.err = "InvalidInput" /\ last.value = <<>>
           ELSE last.err = "Ok" /\ last.value = <<Millis(source.arg)>>
    /\ (source.fn = "Timestamp::to_duration" /\ phase = "back") =>
           /\ last.op = "Timestamp::to_duration" => (last.value = <<>> <=> source.arg < 0)
           /\ last.op = "Timestamp::from_duration" =>
                  last.err = "Ok" /\ last.value = <<source.arg>>

\* The same for the durations whose milliseconds fit 64 bits: the part of
\* the statement the code meets.
FitsU64(d) ==
    /\ ~U64_mul(d.secs, 1000).overflow
    /\ ~U64_add(U64_mul(d.secs, 1000).value, d.nanos \div 1000000).overflow

C24_FromDurationWithin64Bits ==
    /\ (status = "returned" /\ source.fn = "Timestamp::from_duration"
            /\ FitsU64(source.arg)) =>
           IF TooLong(source.arg)
           THEN last.err = "InvalidInput" /\ last.value = <<>>
           ELSE last.err = "Ok" /\ last.value = <<Millis(source.arg)>>
    /\ (source.fn = "Timestamp::to_duration" /\ phase = "back") =>
           /\ last.op = "Timestamp::to_duration" => (last.value = <<>> <=> source.arg < 0)
           /\ last.op = "Timestamp::from_duration" =>
                  last.err = "Ok" /\ last.value = <<source.arg>>

\* i32::MAX has gone to a duration and come back.
C24_Witness ==
    /\ source.fn = "Timestamp::to_duration" /\ source.arg = I32_MAX
    /\ last.op = "Timestamp::from_duration" /\ last.value = <<I32_MAX>>

\* A duration of 2147483.648 s, one millisecond too long, has been refused.
C24_WitnessTooLong ==
    /\ status = "returned" /\ source.fn = "Timestamp::from_duration"
    /\ source.arg = [secs |-> <<0, 0, 32, 50331>>, nanos |-> 648000000]
    /\ last.err = "InvalidInput"

(***************************************************************************)
(* C25.  The audio example: after the tag header                           *)
(* 08 00 00 05 00 00 00 00 00 00 00 and a payload that starts with AF, the *)
(* decoder reads one AAC packet type byte and then three data bytes, five  *)
(* payload bytes in all.  With the declared size 4, the same five payload  *)
(* bytes and the same size field after them, decoding fails.               *)
(***************************************************************************)
\* The first tag of the input is the example with the declared data size
\* `size`: the header, the payload byte AF, and 00 00 00 10 after the five
\* payload bytes.
ExampleTag(size) ==
    /\ Len(input) >= FirstTag + 19
    /\ SubSeq(input, FirstTag, FirstTag + 11) = <<8, 0, 0, size, 0, 0, 0, 0, 0, 0, 0, 175>>
    /\ SubSeq(input, FirstTag + 16, FirstTag + 19) = <<0, 0, 0, 16>>

\* The decoder is working on the first tag and no call has failed.
OnFirstTag == status = "running" /\ base = 0 /\ Peekable_is_idle(decoder.header)

\* The payload decoder of the tag in progress.
PayloadLength == decoder.tag.inner.data

C25_WorkedAudioExample ==
    /\ (ExampleTag(5) /\ OnFirstTag /\ pos >= FirstTag + 10) =>
           /\ PayloadLength.inner.variant = "Audio"
           /\ PayloadLength.expected_bytes = 5
           /\ PayloadLength.expected_bytes - PayloadLength.remaining_bytes
                  = Min(pos, FirstTag + 15) - (FirstTag + 10)
           /\ \A a \in {PayloadLength.inner.d} :
                  /\ Len(a.aac_packet_type) = (IF pos >= FirstTag + 12 THEN 1 ELSE 0)
                  /\ Len(a.data.buf) = (IF pos >= FirstTag + 12
                                        THEN Min(pos, FirstTag + 15) - (FirstTag + 12) ELSE 0)
                  /\ pos >= FirstTag + 15 =>
                         /\ a.aac_packet_type = <<input[FirstTag + 12]>>
                         /\ a.data.buf = SubSeq(input, FirstTag + 13, FirstTag + 15)
                         /\ AudioTagDataDecoder_is_idle(a)
    /\ (ExampleTag(5) /\ OnFirstTag /\ FileDecoder_is_idle(decoder)) =>
           \A f \in {FileDecoder_finish(decoder)} :
               /\ f.err = "Ok"
               /\ f.item[1].aac_packet_type = <<input[FirstTag + 12]>>
               /\ f.item[1].data = SubSeq(input, FirstTag + 13, FirstTag + 15)
    /\ ExampleTag(4) =>
           /\ tags = <<>>
           /\ phase = "decode"
           /\ (OnFirstTag /\ pos >= FirstTag + 10) => PayloadLength.expected_bytes = 4
           /\ (OnFirstTag /\ FileDecoder_is_idle(decoder)) =>
                  \A f \in {FileDecoder_finish(decoder)} :
                      f.err = "InvalidInput" /\ f.item = <<>>
           /\ (status = "running" /\ pos = Len(input) /\ eos) =>
                  \A r \in {FileDecoder_decode(decoder, Buffer, eos)} :
                      r.err # "Ok" \/ ~FileDecoder_is_idle(r.d)

\* The example has been decoded and returned: AAC packet type 1 and the
\* data 21 22 23.
C25_Witness ==
    /\ ExampleTag(5)
    /\ pos = FirstTag + 19
    /\ Len(tags) = 1
    /\ tags[1].aac_packet_type = <<1>> /\ tags[1].data = <<33, 34, 35>>

\* With the declared size 4, finish_decoding has failed after the four
\* payload bytes and the four bytes taken as the size field.
C25_WitnessFail ==
    /\ ExampleTag(4)
    /\ pos = FirstTag + 18
    /\ last = [op |-> "finish", err |-> "InvalidInput"]

(***************************************************************************)
(* C26.  Strict sequencing: while no call has failed, in HeaderDecoder,    *)
(* TagHeaderDecoder, TagDecoder, the audio and video payload decoders and  *)
(* FileDecoder a sub-decoder has consumed bytes of the current item only   *)
(* if every sub-decoder before it in field order is idle (a conditional    *)
(* field that the item does not carry consumes nothing and is passed       *)
(* over), and the bytes the sub-decoders hold are the consumed bytes of    *)
(* the stream in wire order, wherever the chunks end.                      *)
(***************************************************************************)
\* A sub-decoder as the rule sees it: whether it has consumed a byte of
\* the item, and whether it is idle.
BytesField(b, size) == [started |-> b # <<>>, idle |-> Len(b) = size]

PeekedByteField(p) == [started |-> p.inner # <<>> \/ p.item # <<>>, idle |-> p.item # <<>>]

RemainingField(r) == [started |-> r.buf # <<>> \/ r.eos, idle |-> r.eos]

\* A conditional field the item does not carry.
AbsentField(b) == [started |-> b # <<>>, idle |-> TRUE]

InOrder(fs) == \A i, j \in DOMAIN fs : (i < j /\ fs[j].started) => fs[i].idle

AnyStarted(fs) == \E i \in DOMAIN fs : fs[i].started

TagHeaderFields(d) ==
    <<BytesField(d.tag_type, 1), BytesField(d.data_size, 3), BytesField(d.timestamp, 3),
      BytesField(d.timestamp_extended, 1), BytesField(d.stream_id, 3)>>

HeaderFields(h) ==
    <<BytesField(h.signature, 3), BytesField(h.version, 1), BytesField(h.flags, 1),
      PeekedByteField(h.data_offset),
      [started |-> h.padding.eos \/ h.padding.remaining_bytes # h.padding.expected_bytes,
       idle |-> h.padding.eos]>>

AudioFields(a) ==
    <<PeekedByteField(a.header),
      IF AudioTagDataDecoder_is_aac_packet(a) THEN BytesField(a.aac_packet_type, 1)
      ELSE AbsentField(a.aac_packet_type),
      RemainingField(a.data)>>

VideoFields(v) ==
    <<PeekedByteField(v.frame_type_and_codec),
      IF VideoTagDataDecoder_is_avc_packet(v) THEN BytesField(v.avc_packet_type, 1)
      ELSE AbsentField(v.avc_packet_type),
      IF VideoTagDataDecoder_is_avc_packet(v) THEN BytesField(v.composition_time, 3)
      ELSE AbsentField(v.composition_time),
      RemainingField(v.data)>>

PayloadFields(t) ==
    CASE t.variant = "Audio" -> AudioFields(t.d)
      [] t.variant = "Video" -> VideoFields(t.d)
      [] t.variant = "ScriptData" -> <<RemainingField(t.d)>>
      [] OTHER -> <<>>

TagFields(t) ==
    <<[started |-> AnyStarted(TagHeaderFields(t.header.inner)) \/ t.header.item # <<>>,
       idle |-> Peekable_is_idle(t.header)],
      [started |-> AnyStarted(PayloadFields(t.data.inner))
                       \/ t.data.remaining_bytes # t.data.expected_bytes,
       idle |-> Length_is_idle(t.data)]>>

FileHeaderFields(t) ==
    <<[started |-> AnyStarted(HeaderFields(t.h)), idle |-> HeaderDecoder_is_idle(t.h)],
      BytesField(t.p, 4)>>

FileFields(fd) ==
    <<[started |-> AnyStarted(FileHeaderFields(fd.header.inner)) \/ fd.header.item # <<>>,
       idle |-> Peekable_is_idle(fd.header)],
      [started |-> fd.tag.started \/ AnyStarted(TagFields(fd.tag.inner)),
       idle |-> TagDecoder_is_idle(fd.tag.inner)],
      BytesField(fd.prev_tag_size, 4)>>

\* The bytes a payload decoder holds, in field order.
PayloadHeld(t) ==
    CASE t.variant = "Audio" ->
            (IF t.d.header.item # <<>> THEN t.d.header.item ELSE t.d.header.inner)
                \o t.d.aac_packet_type \o t.d.data.buf
      [] t.variant = "Video" ->
            (IF t.d.frame_type_and_codec.item # <<>>
             THEN <<t.d.frame_type_and_codec.item[1][1] * 16
                        + t.d.frame_type_and_codec.item[1][2]>>
             ELSE t.d.frame_type_and_codec.inner)
                \o t.d.avc_packet_type \o t.d.composition_time \o t.d.data.buf
      [] t.variant = "ScriptData" -> t.d.buf
      [] OTHER -> <<>>

\* Stream offset of the last payload byte of the tag whose header is peeked.
PayloadEnd == TagStart + TAG_HEADER_SIZE + PeekedHeader.data_size

\* No call has returned an error: the decoder runs, and the item in
\* progress begins where the tags handed out end.
NoCallFailed ==
    status = "running" /\ base = (IF tags = <<>> THEN 0 ELSE HeaderEnd + SizeSum(tags))

C26_WitnessSize ==
    /\ NoCallFailed
    /\ Len(decoder.prev_tag_size) = 2
    /\ TagDecoder_is_idle(decoder.tag.inner)

(***************************************************************************)
(* C27.  Each composite decoder reports is_idle() equal to the conjunction *)
(* of the idleness of its sub-decoders: TagHeaderDecoder (five fields),    *)
(* AudioTagDataDecoder (header byte, AAC packet type byte, data),          *)
(* VideoTagDataDecoder (frame and codec byte, AVC packet type byte,        *)
(* composition time, data), TagDecoder (header, data), HeaderDecoder (five *)
(* fields) and FileDecoder (file header, tag, size field).                 *)
(***************************************************************************)
AllIdle(fs) == \A i \in DOMAIN fs : fs[i].idle

\* The payload decoder in use, if it is of the given kind.
PayloadOf(kind) ==
    IF decoder.tag.inner.data.inner.variant = kind THEN {decoder.tag.inner.data.inner.d} ELSE {}

\* The composites whose sub-decoders all take part in every item.
IdleOfUnconditional ==
    /\ TagHeaderDecoder_is_idle(decoder.tag.inner.header.inner)
           <=> AllIdle(TagHeaderFields(decoder.tag.inner.header.inner))
    /\ TagDecoder_is_idle(decoder.tag.inner) <=> AllIdle(TagFields(decoder.tag.inner))
    /\ HeaderDecoder_is_idle(decoder.header.inner.h)
           <=> AllIdle(HeaderFields(decoder.header.inner.h))
    /\ FileDecoder_is_idle(decoder) <=> AllIdle(FileFields(decoder))

C27_WitnessMp3 ==
    /\ NoCallFailed
    /\ \E a \in PayloadOf("Audio") :
           /\ ~AudioTagDataDecoder_is_aac_packet(a)
           /\ AudioTagDataDecoder_is_idle(a)
           /\ a.aac_packet_type = <<>>

(***************************************************************************)
(* C28.  While no call has failed, TagDecoder.requiring_bytes() is 11      *)
(* minus the header bytes consumed while the tag header is incomplete and  *)
(* data_size minus the payload bytes consumed once it is complete;         *)
(* FileDecoder.requiring_bytes() is the sum of what the file header, the   *)
(* tag and the size field still require, never exceeds the bytes still     *)
(* needed to reach idle, and is 0 when the decoder is idle.                *)
(***************************************************************************)
\* What is outstanding of each part, read off the stream offsets: the file
\* header part (13 bytes until the data offset is known, then up to the
\* end of the size field after the padding), the tag, the size field.
HeaderOutstanding ==
    IF Peekable_is_idle(decoder.header) THEN 0
    ELSE IF pos < HEADER_SIZE THEN HEADER_SIZE + 4 - pos
    ELSE HeaderEnd - pos

TagOutstanding ==
    IF ~Peekable_is_idle(decoder.header) THEN TAG_HEADER_SIZE
    ELSE IF ~Peekable_is_idle(decoder.tag.inner.header) THEN TAG_HEADER_SIZE - (pos - TagStart)
    ELSE BE(SubSeq(input, TagStart + 2, TagStart + 4))
             - (Min(pos, PayloadEnd) - (TagStart + TAG_HEADER_SIZE))

SizeOutstanding ==
    IF Peekable_is_idle(decoder.header) /\ Peekable_is_idle(decoder.tag.inner.header)
           /\ pos > PayloadEnd
    THEN 4 - (pos - PayloadEnd)
    ELSE 4

C28_RequiringBytes ==
    NoCallFailed =>
        /\ TagDecoder_requiring_bytes(decoder.tag.inner) = TagOutstanding
        /\ FileDecoder_requiring_bytes(decoder)
               = HeaderOutstanding + TagOutstanding + SizeOutstanding
        /\ (Peekable_is_idle(decoder.header) /\ Len(input) >= TagStart + 4
                /\ Len(input) >= ItemEnd) =>
               /\ FileDecoder_requiring_bytes(decoder) <= ItemEnd - pos
               /\ Peekable_is_idle(decoder.tag.inner.header) =>
                      FileDecoder_requiring_bytes(decoder) = ItemEnd - pos
        /\ (~Peekable_is_idle(decoder.header) /\ Len(input) >= HeaderEnd + 4
                /\ HeaderValid) =>
               FileDecoder_requiring_bytes(decoder)
                   <= HeaderEnd + TAG_HEADER_SIZE
                          + BE(SubSeq(input, HeaderEnd + 2, HeaderEnd + 4)) + 4 - pos
        /\ FileDecoder_is_idle(decoder) => FileDecoder_requiring_bytes(decoder) = 0

\* A chunk has ended in the payload of the second tag: the tag requires
\* what is left of its data size, the file decoder four bytes more.
C28_Witness ==
    /\ NoCallFailed
    /\ Len(tags) = 1
    /\ Peekable_is_idle(decoder.tag.inner.header)
    /\ TagDecoder_requiring_bytes(decoder.tag.inner) = 1
    /\ PeekedHeader.data_size > 1
    /\ FileDecoder_requiring_bytes(decoder) = 5

\* A chunk has ended in the header of a file with a padding byte, before
\* the data offset is known: the requirement is below what is needed.
C28_WitnessBelow ==
    /\ NoCallFailed
    /\ pos = 7
    /\ BE(SubSeq(input, 6, 9)) = 10
    /\ FileDecoder_requiring_bytes(decoder) = 6 + TAG_HEADER_SIZE + 4

(***************************************************************************)
(* C29.  A decode call never consumes bytes beyond the end of the size     *)
(* field that follows the current tag; while is_idle() holds, decode       *)
(* consumes 0 bytes and leaves the pending tag as it is; so no byte of     *)
(* tag k+1 is consumed before tag k has been taken.                        *)
(***************************************************************************)
\* Buffers a caller can pass next, with the end of stream signalled or
\* not: nothing, one byte, the chunk delivered, and all that is left of
\* the file, which reaches furthest past the current tag.
NextBuffers ==
    {SubSeq(input, pos + 1, j) : j \in {pos, Min(pos + 1, Len(input)), avail, Len(input)}}

FramingKnown == Len(input) >= HEADER_SIZE /\ Len(input) >= TagStart + 4

C29_NoOverConsumption ==
    status = "running" =>
        /\ \A buf \in NextBuffers, e \in BOOLEAN :
               \A r \in {FileDecoder_decode(decoder, buf, e)} :
                   /\ r.err = "Ok" =>
                          /\ r.n <= Len(buf)
                          /\ FramingKnown => pos + r.n <= ItemEnd
                   /\ FileDecoder_is_idle(decoder) =>
                          /\ r.err = "Ok" /\ r.n = 0
                          /\ r.d = decoder
                          /\ FileDecoder_finish(r.d) = FileDecoder_finish(decoder)
        /\ FramingKnown => pos <= ItemEnd
        /\ (NoCallFailed /\ FramingKnown) =>
               pos <= HeaderEnd + SizeSum(tags) + TAG_HEADER_SIZE
                          + BE(SubSeq(input, TagStart + 2, TagStart + 4)) + 4

\* The first tag of two is complete and not yet taken, and the buffer
\* already holds bytes of the second: decode has stopped before them.
C29_Witness ==
    /\ NoCallFailed
    /\ tags = <<>>
    /\ Len(source.orig) = 2
    /\ last.op = "decode"
    /\ FileDecoder_is_idle(decoder)
    /\ pos = ItemEnd
    /\ avail > pos

\* The same at the second tag, the whole file having been handed over.
C29_WitnessSecond ==
    /\ NoCallFailed
    /\ Len(tags) = 1
    /\ FileDecoder_is_idle(decoder)
    /\ pos = ItemEnd
    /\ avail = Len(input)

(***************************************************************************)
(* C30.  After a successful finish_decoding the same decoder is ready for  *)
(* the next tag: the next byte consumed is read as the tag-type byte of a  *)
(* new tag header, the payload decoder is built anew for the new tag's     *)
(* kind and bounded by its data_size, nothing of the previous tag carries  *)
(* over, and the k-th successful finish_decoding returns the k-th tag of   *)
(* the stream.                                                             *)
(***************************************************************************)
\* A decoder that has never seen a tag, the file header being known.
NewForTags == [FileDecoder_new EXCEPT !.header = decoder.header]

\* What a caller can observe of a decode call's outcome.
Observed(r) ==
    [n |-> r.n, err |-> r.err,
     idle |-> FileDecoder_is_idle(r.d),
     requiring |-> FileDecoder_requiring_bytes(r.d),
     finish |-> Only({[err |-> f.err, item |-> f.item] : f \in {FileDecoder_finish(r.d)}})]

\* The k-th item of the stream begins after the k-1 tags handed out and
\* their size fields; the tag a decoder made for it alone reads from it.
ItemStart(k) == HeaderEnd + SizeSum(SubSeq(tags, 1, k - 1))

TagReadAlone(k) ==
    LET start == ItemStart(k)
        size == BE(SubSeq(input, start + 2, start + 4))
        bytes == SubSeq(input, start + 1, start + TAG_HEADER_SIZE + size)
    IN  Only({f.item : f \in {TagDecoder_finish(TagDecoder_decode(TagDecoder_new, bytes, FALSE).d)}})

C30_ReuseAcrossTags ==
    /\ last = [op |-> "finish", err |-> "Ok"] =>
           /\ decoder.tag.inner.header = Peekable_new(TagHeaderDecoder_new)
           /\ decoder.tag.inner.data.inner = TagDataDecoder_None
           /\ ~decoder.tag.started
           /\ decoder.prev_tag_size = <<>>
           /\ \A buf \in NextBuffers, e \in BOOLEAN :
                  Observed(FileDecoder_decode(decoder, buf, e))
                      = Observed(FileDecoder_decode(NewForTags, buf, e))
    /\ (NoCallFailed /\ Peekable_is_idle(decoder.header)
            /\ Peekable_is_idle(decoder.tag.inner.header)) =>
           /\ PeekedHeader.tag_type = input[TagStart + 1]
           /\ PeekedHeader.data_size = BE(SubSeq(input, TagStart + 2, TagStart + 4))
           /\ decoder.tag.inner.data.expected_bytes = PeekedHeader.data_size
           /\ decoder.tag.inner.data.inner.variant
                  = TagDataDecoder_for(PeekedHeader.tag_type).variant
    /\ NoCallFailed =>
           /\ \A k \in 1 .. Len(tags) : tags[k] = TagReadAlone(k)
           /\ source.defect = "none" => tags = SubSeq(source.orig, 1, Len(tags))

\* The first tag, an AAC audio tag with its packet-type byte, has been
\* handed out, and the second, a script tag of another size, as well.
C30_Witness ==
    /\ NoCallFailed
    /\ last = [op |-> "finish", err |-> "Ok"]
    /\ Len(tags) = 2
    /\ tags[1].kind = "Audio" /\ tags[1].aac_packet_type # <<>>
    /\ tags[2].kind = "ScriptData"
    /\ Len(tags[2].data) # Len(tags[1].data)

\* The second tag's header has just been read by the decoder that handed
\* out an AVC video tag: the payload decoder is one for audio.
C30_WitnessNext ==
    /\ NoCallFailed
    /\ Len(tags) = 1
    /\ tags[1].kind = "Video" /\ tags[1].composition_time # <<>>
    /\ Peekable_is_idle(decoder.tag.inner.header)
    /\ decoder.tag.inner.data.inner.variant = "Audio"
    /\ pos < PayloadEnd

(***************************************************************************)
(* Files whose first tag declares less payload than the tag written: the   *)
(* tag header carries the smaller data_size, the payload is cut to it and  *)
(* the size field after it agrees; a script tag may follow.  The same      *)
(* reader, decoder and encoder run on them.                                *)
(***************************************************************************)
ShortSources ==
    UNION {{[hdr |-> DefaultHeader, orig |-> <<t>> \o rest, defect |-> "short", size |-> n] :
               rest \in {<<>>, <<Script>>}, n \in 0 .. (Tag_size(t) - TAG_HEADER_SIZE)} :
           t \in TagMenu}

ShortInput(src) ==
    LET whole == TagEncoder_bytes(src.orig[1])
        cut == <<whole[1]>> \o ToBE(src.size, 3)
                   \o SubSeq(whole, 5, TAG_HEADER_SIZE + src.size)
    IN  HeaderEncoder_bytes(src.hdr) \o ToBE(0, 4)
            \o cut \o ToBE(Len(cut), 4)
            \o TagsBytes(Tail(src.orig))

InitShort ==
    /\ source \in ShortSources
    /\ input = ShortInput(source)
    /\ avail = 0
    /\ pos = 0
    /\ eos = FALSE
    /\ decoder = FileDecoder_new
    /\ tags = <<>>
    /\ status = "running"
    /\ last = [op |-> "new", err |-> "Ok"]
    /\ phase = "decode"
    /\ encoder = FileEncoder_new(source.hdr)
    /\ out = <<>>
    /\ base = 0

SpecShort == InitShort /\ [][NextCrafted]_vars

(***************************************************************************)
(* C31.  A payload too short for its mandatory fields (audio with          *)
(* data_size 0, AAC audio with data_size 1, video with data_size 0, AVC    *)
(* non-info video with data_size below 5) fails to decode with the end of  *)
(* input reported inside the bound: no tag is yielded and no byte beyond   *)
(* data_size is read for the missing field.  A script-data tag with        *)
(* data_size 0 decodes with empty data.                                    *)
(***************************************************************************)
\* The first tag's framing, read off the input: its type, its declared
\* size, the byte that heads its payload, and where the payload ends.
FirstType == input[FirstTag]

FirstSize == BE(SubSeq(input, FirstTag + 1, FirstTag + 3))

FirstPayloadEnd == PayloadAt - 1 + FirstSize

\* The bytes the payload's mandatory fields take.
Mandatory ==
    CASE FirstType = TAG_TYPE_AUDIO ->
             IF FirstSize >= 1 /\ input[PayloadAt] \div 16 = Aac THEN 2 ELSE 1
      [] FirstType = TAG_TYPE_VIDEO ->
             IF FirstSize >= 1 /\ input[PayloadAt] % 16 = Avc
                    /\ input[PayloadAt] \div 16 # VideoInfoOrCommandFrame
             THEN 5 ELSE 1
      [] OTHER -> 0

TooShort == FirstSize < Mandatory

C31_PayloadTooShort ==
    /\ TooShort =>
           /\ tags = <<>>
           /\ pos <= FirstPayloadEnd
           /\ status = "running" => pos < FirstPayloadEnd \/ FirstSize > 0
           /\ status = "running" => ~FileDecoder_is_idle(decoder)
           /\ (status = "running" /\ avail >= FirstPayloadEnd /\ (pos < avail \/ eos)) =>
                  FileDecoder_decode(decoder, Buffer, eos).err = "UnexpectedEos"
           /\ (status = "failed" /\ last.op = "decode") => last.err = "UnexpectedEos"
           /\ \A f \in {FileDecoder_finish(decoder)} : f.err # "Ok" /\ f.item = <<>>
    /\ (FirstType = TAG_TYPE_SCRIPT_DATA /\ FirstSize = 0 /\ base = 0
            /\ status = "running" /\ pos >= FirstTag - 1 + TAG_HEADER_SIZE) =>
           /\ pos <= FirstPayloadEnd + 4
           /\ Peekable_is_idle(decoder.tag.inner.header)
           /\ Length_is_idle(decoder.tag.inner.data)
           /\ pos = FirstPayloadEnd + 4 =>
                  \A f \in {FileDecoder_finish(decoder)} :
                      /\ f.err = "Ok"
                      /\ f.item = <<[kind |-> "ScriptData",
                                    timestamp |-> source.orig[1].timestamp,
                                    stream_id |-> source.orig[1].stream_id,
                                    data |-> <<>>]>>

\* An AAC audio tag declaring one byte has been delivered whole, with the
\* size field and a script tag behind it, and decode has failed.
C31_Witness ==
    /\ source.orig = <<AudioAac, Script>> /\ FirstSize = 1
    /\ avail = Len(input)
    /\ status = "failed"
    /\ last = [op |-> "decode", err |-> "UnexpectedEos"]
    /\ pos < FirstPayloadEnd + 4

C31_WitnessAvc ==
    /\ source.orig[1] = VideoAvcKey /\ FirstSize = 4
    /\ status = "failed"
    /\ last = [op |-> "decode", err |-> "UnexpectedEos"]

C31_WitnessAudio0 ==
    /\ FirstType = TAG_TYPE_AUDIO /\ FirstSize = 0
    /\ status = "failed"
    /\ last = [op |-> "decode", err |-> "UnexpectedEos"]

C31_WitnessVideo0 ==
    /\ FirstType = TAG_TYPE_VIDEO /\ FirstSize = 0
    /\ status = "failed"
    /\ last = [op |-> "decode", err |-> "UnexpectedEos"]

C31_WitnessScript ==
    /\ FirstType = TAG_TYPE_SCRIPT_DATA /\ FirstSize = 0
    /\ Len(tags) = 1 /\ tags[1].kind = "ScriptData" /\ tags[1].data = <<>>

(***************************************************************************)
(* C32.  For every audio header byte b with a recognised format the tag    *)
(* has sound_format b>>4, sound_rate (b>>2)&3, sound_size Bit16 iff bit 1  *)
(* of b is set and sound_type Stereo iff bit 0 is set; for every video     *)
(* header byte b with recognised nibbles the tag has frame_type b>>4 and   *)
(* codec_id b&15; no audio header byte makes the sound rate fail.          *)
(***************************************************************************)
\* The file has the first payload byte of its one tag set to each value.
HeaderByteSet == source.defect = "byte" /\ source.at = PayloadAt

AudioRecognised ==
    input[FirstTag] = TAG_TYPE_AUDIO /\ PayloadByte \div 16 \in (0 .. 8) \cup {10, 11, 14, 15}

VideoRecognised ==
    input[FirstTag] = TAG_TYPE_VIDEO /\ PayloadByte \div 16 \in 1 .. 5 /\ PayloadByte % 16 \in 1 .. 7

\* The fields the header byte determines.
HeaderBits(t) ==
    IF input[FirstTag] = TAG_TYPE_AUDIO
    THEN /\ t.kind = "Audio"
         /\ t.sound_format = PayloadByte \div 16
         /\ t.sound_rate = (PayloadByte \div 4) % 4
         /\ t.sound_size = (IF (PayloadByte \div 2) % 2 = 1 THEN 1 ELSE 0)
         /\ t.sound_type = (IF PayloadByte % 2 = 1 THEN 1 ELSE 0)
    ELSE /\ t.kind = "Video"
         /\ t.frame_type = PayloadByte \div 16
         /\ t.codec_id = PayloadByte % 16

C32_PayloadHeaderBits ==
    /\ avail = 0 => \A b \in Byte : SoundRate_from_u8((b \div 4) % 4).err = "Ok"
    /\ HeaderByteSet =>
           /\ tags # <<>> => (AudioRecognised \/ VideoRecognised) /\ HeaderBits(tags[1])
           /\ (AudioRecognised \/ VideoRecognised) =>
                  /\ (status = "failed" /\ last.op = "decode") => last.err = "UnexpectedEos"
                  /\ (status = "running" /\ base = 0 /\ FileDecoder_is_idle(decoder)) =>
                         \A f \in {FileDecoder_finish(decoder)} :
                             f.err = "Ok" /\ HeaderBits(f.item[1])
                  /\ (status = "running" /\ base = 0 /\ avail = Len(input) /\ pos < avail) =>
                         \A r \in {FileDecoder_decode(decoder, Buffer, eos)} :
                             r.err = "Ok" /\ FileDecoder_is_idle(r.d)

\* The audio header byte 0x2E: MP3, 44 kHz, 16-bit, mono.
C32_Witness ==
    /\ HeaderByteSet /\ input[FirstTag] = TAG_TYPE_AUDIO /\ PayloadByte = 46
    /\ Len(tags) = 1
    /\ tags[1].sound_format = 2 /\ tags[1].sound_rate = 3
    /\ tags[1].sound_size = 1 /\ tags[1].sound_type = 0

\* The video header byte 0x24: frame type 2, codec 4.
C32_WitnessVideo ==
    /\ HeaderByteSet /\ input[FirstTag] = TAG_TYPE_VIDEO /\ PayloadByte = 36
    /\ Len(tags) = 1
    /\ tags[1].frame_type = 2 /\ tags[1].codec_id = 4

(***************************************************************************)
(* HeaderDecoder on its own.  Headers with a right or a wrong signature    *)
(* and version and every data offset up to MaxOffset, with the padding     *)
(* the offset asks for and four more bytes behind it, are delivered in     *)
(* chunks; the caller decodes until the decoder is idle and then takes the *)
(* item, as Peekable and decode_exact do.                                  *)
(***************************************************************************)
InitHeader ==
    /\ source \in {[hdr |-> DefaultHeader, orig |-> <<>>, defect |-> "header",
                    signature |-> sg, version |-> v, at |-> d] :
                      sg \in {SIGNATURE, <<SIGNATURE[1], SIGNATURE[2], 0>>},
                      v \in {VERSION, VERSION + 1}, d \in 0 .. MaxOffset}
    /\ input = source.signature \o <<source.version, FLAG_AUDIO + FLAG_VIDEO>>
                   \o ToBE(source.at, 4)
                   \o [i \in 1 .. (IF source.at > HEADER_SIZE THEN source.at - HEADER_SIZE ELSE 0)
                         |-> 70]
                   \o ToBE(0, 4)
    /\ avail = 0
    /\ pos = 0
    /\ eos = FALSE
    /\ decoder = HeaderDecoder_new
    /\ tags = <<>>
    /\ status = "running"
    /\ last = [op |-> "new", err |-> "Ok"]
    /\ phase = "decode"
    /\ encoder = FileEncoder_new(source.hdr)
    /\ out = <<>>
    /\ base = 0

\* decoder.decode(buffer, eos) on the HeaderDecoder.
DecodeHeader ==
    /\ status = "running" /\ phase = "decode"
    /\ pos < avail \/ eos
    /\ \E r \in {HeaderDecoder_decode(decoder, Buffer, eos)} :
           /\ decoder' = r.d
           /\ last' = [op |-> "decode", err |-> r.err]
           /\ status' = IF r.err = "Ok" THEN "running" ELSE "failed"
           /\ pos' = IF r.err = "Ok" THEN pos + r.n ELSE pos
    /\ UNCHANGED <<source, input, avail, eos, tags, phase, encoder, out, base>>

\* decoder.finish_decoding() once the decoder is idle; `tags` takes the
\* header returned.
FinishHeader ==
    /\ status = "running" /\ phase = "decode"
    /\ HeaderDecoder_is_idle(decoder)
    /\ \E r \in {HeaderDecoder_finish(decoder)} :
           /\ decoder' = r.d
           /\ last' = [op |-> "finish", err |-> r.err]
           /\ tags' = IF r.err = "Ok" THEN Append(tags, r.item) ELSE tags
           /\ status' = IF r.err = "Ok" THEN "running" ELSE "failed"
    /\ phase' = "done"
    /\ UNCHANGED <<source, input, avail, pos, eos, encoder, out, base>>

NextHeader ==
    \/ \E k \in (1 .. MaxChunk) \cup {Len(input) - avail} : Fill(k)
    \/ SignalEos
    \/ DecodeHeader
    \/ FinishHeader

SpecHeader == InitHeader /\ [][NextHeader]_vars

(***************************************************************************)
(* C33.  HeaderDecoder.decode checks only the data offset (>= 9); the      *)
(* signature and the version are checked in finish_decoding, after the 9   *)
(* fixed bytes and the offset - 9 padding bytes have been consumed.  With  *)
(* a wrong signature and an offset >= 9, decode consumes the whole         *)
(* declared header length without error; with a wrong signature and an     *)
(* offset below 9 the error is the offset error that decode raises.        *)
(***************************************************************************)
WrongSignature == Take(input, 3) # SIGNATURE

WrongVersion == input[4] # VERSION

C33_DeferredHeaderValidation ==
    /\ DataOffset >= HEADER_SIZE =>
           /\ pos <= DataOffset
           /\ (status = "failed" /\ last.op = "decode") =>
                  last.err = "UnexpectedEos" /\ eos /\ avail < DataOffset
           /\ last.err = "InvalidInput" =>
                  /\ last.op = "finish"
                  /\ pos = DataOffset
                  /\ WrongSignature \/ WrongVersion
           /\ (status = "running" /\ phase = "decode") =>
                  (HeaderDecoder_is_idle(decoder) <=> pos = DataOffset)
           /\ (status = "running" /\ phase = "decode" /\ avail >= DataOffset
                   /\ (pos < avail \/ eos)) =>
                  \A r \in {HeaderDecoder_decode(decoder, Buffer, eos)} :
                      /\ r.err = "Ok"
                      /\ pos + r.n = DataOffset
                      /\ HeaderDecoder_is_idle(r.d)
           /\ (status = "running" /\ phase = "decode" /\ HeaderDecoder_is_idle(decoder)) =>
                  HeaderDecoder_finish(decoder).err
                      = (IF WrongSignature \/ WrongVersion THEN "InvalidInput" ELSE "Ok")
    /\ DataOffset < HEADER_SIZE =>
           /\ ~HeaderDecoder_is_idle(decoder)
           /\ last.op # "finish"
           /\ pos < HEADER_SIZE
           /\ (status = "running" /\ avail >= HEADER_SIZE /\ (pos < avail \/ eos)) =>
                  HeaderDecoder_decode(decoder, Buffer, eos).err = "InvalidInput"
           /\ (status = "failed" /\ avail >= HEADER_SIZE /\ (~eos \/ avail = Len(input))) =>
                  last = [op |-> "decode", err |-> "InvalidInput"]

\* A header with a wrong signature and two padding bytes has been consumed
\* whole by decode, and finish_decoding has then failed.
C33_Witness ==
    /\ WrongSignature /\ DataOffset = HEADER_SIZE + 2
    /\ pos = DataOffset
    /\ last = [op |-> "finish", err |-> "InvalidInput"]

\* The same header is idle before finish_decoding is called.
C33_WitnessIdle ==
    /\ WrongSignature /\ DataOffset = HEADER_SIZE + 2
    /\ pos = DataOffset /\ status = "running" /\ phase = "decode"
    /\ last = [op |-> "decode", err |-> "Ok"]
    /\ HeaderDecoder_is_idle(decoder)

\* A header with a wrong signature and a data offset of 8: decode fails.
C33_WitnessOffset ==
    /\ WrongSignature /\ DataOffset = HEADER_SIZE - 1
    /\ status = "failed"
    /\ last = [op |-> "decode", err |-> "InvalidInput"]

(***************************************************************************)
(* C34.  When finish_decoding fails because the size field after the tag   *)
(* differs from tag_size(), the tag and the size field have both been      *)
(* taken out of the decoder, is_idle() is false, header() is unchanged,    *)
(* and the next decode call reads the following byte as the start of the   *)
(* next tag header: the well-formed tags that remain are decoded as if the *)
(* failed tag had been returned.                                           *)
(***************************************************************************)
\* The decoder is idle on a tag whose size field disagrees with it.
SizeMismatch ==
    /\ status = "running" /\ phase = "decode"
    /\ FileDecoder_is_idle(decoder)
    /\ \A t \in {TagDecoder_finish(decoder.tag.inner)} :
           t.err = "Ok" /\ Tag_size(t.item) # BE(decoder.prev_tag_size)

\* The decoder as finish_decoding leaves it.
Emptied(fd) ==
    /\ fd.tag.inner.header = Peekable_new(TagHeaderDecoder_new)
    /\ fd.tag.inner.data.inner = TagDataDecoder_None
    /\ ~fd.tag.started
    /\ fd.prev_tag_size = <<>>
    /\ ~FileDecoder_is_idle(fd)

SizeFieldDamaged == source.defect \in {"trailing_plus", "trailing_minus"}

C34_StateAfterSizeMismatch ==
    /\ SizeMismatch =>
           \A f \in {FileDecoder_finish(decoder)} :
               /\ f.err = "InvalidInput" /\ f.item = <<>>
               /\ Emptied(f.d)
               /\ FileDecoder_header(f.d) = FileDecoder_header(decoder)
               /\ f.d.header = decoder.header
               /\ \A buf \in NextBuffers, e \in BOOLEAN :
                      Observed(FileDecoder_decode(f.d, buf, e))
                          = Observed(FileDecoder_decode(NewForTags, buf, e))
    /\ SizeFieldDamaged =>
           /\ (status = "running" /\ phase = "decode" /\ base = 0
                   /\ FileDecoder_is_idle(decoder)) => SizeMismatch
           /\ (last = [op |-> "finish", err |-> "InvalidInput"] /\ status = "running") =>
                  /\ Emptied(decoder)
                  /\ FileDecoder_header(decoder) = <<source.hdr>>
                  /\ pos = base
           /\ tags = SubSeq(Tail(source.orig), 1, Len(tags))
           /\ (status = "running" /\ base > 0 /\ Len(input) >= base + 4) =>
                  /\ pos <= ItemEnd
                  /\ FileDecoder_is_idle(decoder) <=> pos = ItemEnd
           /\ (status = "running" /\ phase = "decode" /\ base > 0 /\ tags = <<>>
                   /\ FileDecoder_is_idle(decoder)) =>
                  \A f \in {FileDecoder_finish(decoder)} :
                      f.err = "Ok" /\ f.item = Tail(source.orig)

\* finish_decoding has just failed on the first tag's size field, and a
\* script tag follows in the file.
C34_Witness ==
    /\ SizeFieldDamaged /\ Len(source.orig) = 2
    /\ last = [op |-> "finish", err |-> "InvalidInput"]
    /\ status = "running"
    /\ tags = <<>>
    /\ pos = base /\ pos < Len(input)

\* The script tag after the failed tag has been handed out.
C34_WitnessNext ==
    /\ SizeFieldDamaged /\ Len(source.orig) = 2
    /\ tags = <<Script>>
    /\ last = [op |-> "finish", err |-> "Ok"]
    /\ pos = Len(input)

====
